---- MODULE Spec2Model ----
(***************************************************************************)
(* Emergent-adventure world generator: the bitwise WFC tile solver         *)
(* (poc/wfc/core.py), the geography generator (poc/wfc/geography.py), the  *)
(* backward plot generator (poc/wfc/plot.py) and the world assembler       *)
(* (poc/wfc/integration.py).                                               *)
(*                                                                         *)
(* Bitmasks are modelled as sets of bit positions: AND is \cap, OR is      *)
(* \cup, (1 << t) is {t}.  Python integers are unbounded, so no width is   *)
(* lost; where the code compares masks as numbers, MaskValue gives the     *)
(* number.                                                                 *)
(*                                                                         *)
(* Spec      : one BitwiseWFC solver driven through its public methods,    *)
(*             random draws unconstrained.                                 *)
(* WorldSpec : WorldGenerator.generate, random draws taken from the        *)
(*             process-wide generator `rng`, which random.seed resets.     *)
(***************************************************************************)
EXTENDS Integers, Sequences, FiniteSets, TLC

VARIABLES
    \* ---- BitwiseWFC (core.py:77-106) ----
    width, height, num_tiles, mask_bits,
    constraints,        \* [N,E,S,W] -> [tile -> set of allowed neighbour tiles]
    grid,               \* <<x,y>> -> [possibilities, collapsed_to]
    prop_stack,         \* sequence of <<x,y>>
    \* ---- solver driver ----
    phase,              \* "setup" | "idle" | "gen"
    gen_left,           \* iterations left of the running generate loop
    gen_result,         \* "none" | "ok" | "fail": what the last generate returned
    forced,             \* cells collapse(x, y, tile) succeeded on since the last reset
    rules,              \* set_*_constraint calls made so far
    ncollapse,          \* collapse calls from outside since the last reset
    \* ---- process-wide random generator (module random) ----
    rng,
    \* ---- WorldGenerator (integration.py:213-234) ----
    base_seed, max_plot_attempts, max_geo_attempts,
    wpc,                \* position inside WorldGenerator.generate
    plot_attempt, geo_attempt,
    graph,              \* plot_gen.graph
    key_locations,      \* geo_gen.key_locations: sequence of [name, pos]
    world,              \* WorldState
    chosen,             \* tile type drawn for each node at anchor placement
    planner_runs, geo_runs,
    completable,        \* what verify_completability returned last: "none" | "ok" | "fail"
    calls, prev,        \* number of generate calls so far, result of the first
    \* ---- a second generation running in the same process ----
    peer,
    \* ---- calls of the module-level functions and of the planner ----
    tile_grid,          \* the grid argument: [width, height, tiles]
    passable_set,       \* the passable argument: a set of tile ids
    plot_in,            \* the planner's inputs: [templates, graph]
    ret                 \* the last call: [fn, ..., value]

solverVars == <<width, height, num_tiles, mask_bits, constraints, grid,
                prop_stack>>
driverVars == <<phase, gen_left, gen_result, forced, rules, ncollapse>>
worldVars  == <<base_seed, max_plot_attempts, max_geo_attempts, wpc,
                plot_attempt, geo_attempt, graph, key_locations, world,
                chosen, planner_runs, geo_runs, completable, calls, prev>>
callVars   == <<tile_grid, passable_set, plot_in, ret>>
vars == <<solverVars, driverVars, rng, worldVars, peer, callVars>>

(***************************************************************************)
(* Bounds of the model                                                     *)
(***************************************************************************)
MaxW        == 2     \* solver grids under Spec are 1..MaxW wide
MaxH        == 2     \* and 1..MaxH high
MaxTiles    == 2     \* tile types of the solver under Spec
MaxRules    == 2     \* set_*_constraint calls that author a table
MaxForced   == 2     \* collapse calls from outside between two resets
MaxIter     == 1     \* largest explicit max_iterations passed to generate
MaxSeed         == 2 \* WorldGenerator seeds under WorldSpec are 0..MaxSeed
MaxPlotAttempts == 2 \* max_plot_attempts is 0..MaxPlotAttempts
MaxGeoAttempts  == 2 \* max_geo_attempts is 0..MaxGeoAttempts
MaxCalls        == 2 \* generate calls on one WorldGenerator
MaxAmbient      == 1 \* states other users of module random leave it in
MaxPeerSteps    == 2 \* reseeds and draws of the second generation
MaxBad          == 1 \* constructor arguments go down to -MaxBad
SmallMaskBits   == 1 \* a mask width below MaxTiles
MaxNodes        == 3 \* PlotGraphs handed to topological_sort have 1..MaxNodes nodes
MaxReads        == 3 \* to_tile_grid / verify_completability calls after one generation
MaxPlanSeed     == 15 \* planner seeds under ChainSpec are 0..MaxPlanSeed
MaxCap          == 7 \* explicit max_iterations under LoopSpec are 0..MaxCap
MaxTargets      == 2 \* check_reachability gets 0..MaxTargets targets
MaxTileId       == 1 \* tile ids of the grids handed to the module-level functions

\* The map sizes of WorldGenerator under WorldSpec: the 1x1 boundary, maps
\* one cell wide or high, the smallest map that holds an anchor, and maps
\* wide enough for anchors to lie apart.
WorldDims ==
    {<<1, 1>>, <<1, 2>>, <<2, 1>>, <<2, 2>>, <<3, 3>>, <<6, 3>>, <<7, 3>>}

\* find_min_entropy_cell returning None
NoCell == <<-1, -1>>

Min(a, b) == IF a < b THEN a ELSE b
Max(a, b) == IF a > b THEN a ELSE b

SetMin(S) == CHOOSE m \in S : \A n \in S : m <= n

RECURSIVE Pow2(_)
Pow2(n) == IF n = 0 THEN 1 ELSE 2 * Pow2(n - 1)

RECURSIVE MaskValue(_)
MaskValue(mask) ==
    IF mask = {} THEN 0
    ELSE LET b == SetMin(mask) IN Pow2(b) + MaskValue(mask \ {b})

(***************************************************************************)
(* core.py: bit helpers                                                    *)
(***************************************************************************)
\* popcount(mask, bits): sums the low (bits // 8) bytes only.
popcount(mask, bits) == Cardinality(mask \cap (0 .. (8 * (bits \div 8)) - 1))

\* The index counted from 1 instead of 0.
lowest_bit_one_based(mask) == IF mask = {} THEN -1 ELSE SetMin(mask) + 1

\* lowest_bit(mask)
lowest_bit(mask) == IF mask = {} THEN -1 ELSE SetMin(mask)

\* The set bits of mask below `bits`, in increasing order (the scan of
\* random_set_bit).
RECURSIVE SetBitsSeq(_)
SetBitsSeq(mask) ==
    IF mask = {} THEN <<>>
    ELSE LET b == SetMin(mask) IN <<b>> \o SetBitsSeq(mask \ {b})

\* The scan stopping one set bit late.
random_set_bit_late(mask, bits, target) ==
    IF target + 2 <= Cardinality(mask \cap (0 .. bits - 1))
    THEN SetBitsSeq(mask \cap (0 .. bits - 1))[target + 2]
    ELSE -1

\* random_set_bit(mask, bits) when randint(0, count - 1) returns `target`.
random_set_bit(mask, bits, target) ==
    LET low == mask \cap (0 .. bits - 1)
        count == popcount(mask, bits)
    IN IF count = 0 THEN -1
       ELSE IF target + 1 <= Cardinality(low) THEN SetBitsSeq(low)[target + 1]
       ELSE -1

(***************************************************************************)
(* core.py: BitwiseWFC                                                     *)
(***************************************************************************)
Cells(w, h) == (0 .. w - 1) \X (0 .. h - 1)

Dirs == <<"N", "E", "S", "W">>
DX(d) == CASE d = "N" -> 0 [] d = "E" -> 1 [] d = "S" -> 0 [] d = "W" -> -1
DY(d) == CASE d = "N" -> -1 [] d = "E" -> 0 [] d = "S" -> 1 [] d = "W" -> 0
Opposite(d) == CASE d = "N" -> "S" [] d = "E" -> "W" [] d = "S" -> "N" [] d = "W" -> "E"

WFCCell(poss) == [possibilities |-> poss, collapsed_to |-> -1]
is_collapsed(cell) == cell.collapsed_to >= 0
is_contradiction(cell) == cell.possibilities = {} /\ ~is_collapsed(cell)

\* reset(): every cell gets (1 << num_tiles) - 1.
ResetGrid(w, h, n) == [c \in Cells(w, h) |-> WFCCell(0 .. n - 1)]

EmptyConstraints == [d \in {"N", "E", "S", "W"} |-> [t \in {} |-> {}]]

\* constraints.get(tile_id, 0)
ConstraintGet(cons, d, t) == IF t \in DOMAIN cons[d] THEN cons[d][t] ELSE {}

\* dict[t] |= bits, after setdefault(t, 0)
DictOr(dict, t, bits) ==
    [k \in (DOMAIN dict) \cup {t} |->
        (IF k \in DOMAIN dict THEN dict[k] ELSE {}) \cup (IF k = t THEN bits ELSE {})]

\* set_symmetric_constraint(tile_a, tile_b)
set_symmetric_constraint(cons, a, b) ==
    [d \in {"N", "E", "S", "W"} |-> DictOr(DictOr(cons[d], a, {b}), b, {a})]

\* set_directional_constraint(tile_from, tile_to, direction)
set_directional_constraint(cons, a, b, dir) ==
    [d \in {"N", "E", "S", "W"} |->
        IF d = dir THEN DictOr(cons[d], a, {b})
        ELSE IF d = Opposite(dir) THEN DictOr(cons[d], b, {a})
        ELSE cons[d]]

\* get_allowed_neighbors(possibilities, direction)
get_allowed_neighbors(cons, n, possibilities, d) ==
    UNION {ConstraintGet(cons, d, t) : t \in possibilities \cap (0 .. n - 1)}

\* A solver object as a value: the fields of BitwiseWFC (the statistics
\* iterations and backtracks, which nothing reads back, are left out).
Solver(w, h, n, bits, cons) ==
    [width |-> w, height |-> h, num_tiles |-> n, mask_bits |-> bits,
     constraints |-> cons, grid |-> ResetGrid(w, h, n),
     prop_stack |-> <<>>]

\* reset()
reset(s) ==
    [s EXCEPT !.grid = ResetGrid(s.width, s.height, s.num_tiles),
              !.prop_stack = <<>>]

InGrid(s, c) == c \in Cells(s.width, s.height)

\* list[i] for a list of n entries: the entry's 0-based position, -1 for
\* IndexError.  A negative i counts from the end.
PyIndex(i, n) ==
    IF 0 <= i /\ i < n THEN i
    ELSE IF -n <= i /\ i < 0 THEN i + n
    ELSE -1

\* self.grid[y][x]: the cell addressed, NoCell for IndexError.
GridCell(s, c) ==
    LET x == PyIndex(c[1], s.width)
        y == PyIndex(c[2], s.height)
    IN IF x < 0 \/ y < 0 THEN NoCell ELSE <<x, y>>

\* collapse with the test of the tile against the mask left out.
collapse_unchecked(s, c, tile_id) ==
    IF GridCell(s, c) = NoCell THEN [ok |-> FALSE, raised |-> TRUE, s |-> s]
    ELSE [ok |-> TRUE, raised |-> FALSE,
          s |-> [s EXCEPT !.grid[GridCell(s, c)] =
                              [possibilities |-> {tile_id},
                               collapsed_to |-> tile_id],
                          !.prop_stack = Append(@, c)]]

\* collapse(x, y, tile_id) with tile_id given.  self.grid[y][x] raises
\* IndexError for a coordinate beyond the grid.
collapse(s, c, tile_id) ==
    LET gc == GridCell(s, c)
    IN IF gc = NoCell THEN [ok |-> FALSE, raised |-> TRUE, s |-> s]
       ELSE IF tile_id < 0 \/ tile_id \notin s.grid[gc].possibilities
            THEN [ok |-> FALSE, raised |-> FALSE, s |-> s]
       ELSE [ok |-> TRUE, raised |-> FALSE,
             s |-> [s EXCEPT !.grid[gc] = [possibilities |-> {tile_id},
                                           collapsed_to |-> tile_id],
                             !.prop_stack = Append(@, c)]]

\* collapse(x, y) with tile_id None: random_set_bit draws index `target`.
collapse_random(s, c, target) ==
    LET gc == GridCell(s, c)
    IN IF gc = NoCell THEN [ok |-> FALSE, raised |-> TRUE, s |-> s]
       ELSE collapse(s, c, random_set_bit(s.grid[gc].possibilities,
                                          s.mask_bits, target))

\* The body of propagate's inner loop for the popped cell c, directions k..4.
RECURSIVE PropagateDirs(_, _, _)
PropagateDirs(s, c, k) ==
    IF k > 4 THEN [ok |-> TRUE, s |-> s]
    ELSE
      LET d  == Dirs[k]
          nb == <<c[1] + DX(d), c[2] + DY(d)>>
      IN IF ~InGrid(s, nb) THEN PropagateDirs(s, c, k + 1)
         ELSE IF is_collapsed(s.grid[nb]) THEN PropagateDirs(s, c, k + 1)
         ELSE
           LET allowed  == get_allowed_neighbors(s.constraints, s.num_tiles,
                                                 s.grid[GridCell(s, c)].possibilities, d)
               old_poss == s.grid[nb].possibilities
               new_poss == old_poss \cap allowed
           IN IF new_poss = {} THEN [ok |-> FALSE, s |-> s]
              ELSE IF new_poss # old_poss
                   THEN PropagateDirs(
                          [s EXCEPT !.grid[nb] =
                                [possibilities |-> new_poss,
                                 collapsed_to |->
                                    IF popcount(new_poss, s.mask_bits) = 1
                                    THEN lowest_bit(new_poss)
                                    ELSE @.collapsed_to],
                                    !.prop_stack = Append(@, nb)],
                          c, k + 1)
              ELSE PropagateDirs(s, c, k + 1)

\* propagate(): pops the last entry until the stack is empty or a
\* contradiction is met (the rest of the stack then stays where it is).
RECURSIVE propagate(_)

\* propagate, after the inner loop for one popped cell returned r.
PropagateAfterCell(r) == IF r.ok THEN propagate(r.s) ELSE r

propagate(s) ==
    IF s.prop_stack = <<>> THEN [ok |-> TRUE, s |-> s]
    ELSE PropagateAfterCell(
           PropagateDirs([s EXCEPT !.prop_stack = SubSeq(@, 1, Len(@) - 1)],
                         s.prop_stack[Len(s.prop_stack)], 1))

\* is_complete()
is_complete(s) == \A c \in DOMAIN s.grid : is_collapsed(s.grid[c])

\* The cells in the scan order of find_min_entropy_cell: y outer, x inner.
ScanOrder(w, h) ==
    [i \in 1 .. (IF w > 0 /\ h > 0 THEN w * h ELSE 0) |->
        <<(i - 1) % w, (i - 1) \div w>>]

\* The scan of find_min_entropy_cell over cells k.., with the running
\* min_entropy and candidates.  The result is <<"cell", c>> for the early
\* return at entropy 1, else <<"cands", candidates>>.
\* The scan without the skip of collapsed cells: the first cell is returned.
FirstCellScan(s, order, k, min_entropy, candidates) == <<"cell", order[1]>>

\* The scan without the entropy comparison: every open cell is a candidate.
AnyOpenScan(s, order, k, min_entropy, candidates) ==
    <<"cands", SelectSeq(order, LAMBDA c : ~is_collapsed(s.grid[c])
                                          /\ ~is_contradiction(s.grid[c]))>>

RECURSIVE MinEntropyScan(_, _, _, _, _)
MinEntropyScan(s, order, k, min_entropy, candidates) ==
    IF k > Len(order) THEN <<"cands", candidates>>
    ELSE
      LET c    == order[k]
          cell == s.grid[c]
      IN IF is_collapsed(cell) \/ is_contradiction(cell)
         THEN MinEntropyScan(s, order, k + 1, min_entropy, candidates)
         ELSE
           LET entropy == popcount(cell.possibilities, s.mask_bits)
           IN IF entropy = 1 THEN <<"cell", c>>
              ELSE IF entropy < min_entropy
                   THEN MinEntropyScan(s, order, k + 1, entropy, <<c>>)
              ELSE IF entropy = min_entropy
                   THEN MinEntropyScan(s, order, k + 1, min_entropy,
                                       Append(candidates, c))
              ELSE MinEntropyScan(s, order, k + 1, min_entropy, candidates)

find_min_entropy_cell(s) ==
    MinEntropyScan(s, ScanOrder(s.width, s.height), 1, s.num_tiles + 1, <<>>)

\* generate, one pass after propagate() returned pr.
PassAfterPropagate(pr) ==
    IF ~pr.ok THEN [done |-> TRUE, ok |-> FALSE, s |-> pr.s]
    ELSE IF is_complete(pr.s) THEN [done |-> TRUE, ok |-> TRUE, s |-> pr.s]
    ELSE [done |-> FALSE, ok |-> FALSE, s |-> pr.s]

\* generate, one pass after collapse(x, y) returned col.
PassAfterCollapse(col) ==
    IF ~col.ok THEN [done |-> TRUE, ok |-> FALSE, s |-> col.s]
    ELSE PassAfterPropagate(propagate(col.s))

\* One pass of the loop of generate(), given the cell that
\* find_min_entropy_cell returned and the index random_set_bit drew.
\* done: the loop returns; ok: the value returned.
generate_pass(s, c, target) ==
    IF c = NoCell THEN [done |-> TRUE, ok |-> is_complete(s), s |-> s]
    ELSE PassAfterCollapse(collapse_random(s, c, target))

(***************************************************************************)
(* Spec: a BitwiseWFC object and its callers                               *)
(***************************************************************************)
Self ==
    [width |-> width, height |-> height, num_tiles |-> num_tiles,
     mask_bits |-> mask_bits, constraints |-> constraints, grid |-> grid,
     prop_stack |-> prop_stack]

\* Writes the mutable fields of the solver object back.
SetSelf(s) ==
    /\ grid' = s.grid
    /\ prop_stack' = s.prop_stack
    /\ constraints' = s.constraints
    /\ UNCHANGED <<width, height, num_tiles, mask_bits>>

DefaultMaxIterations == 10000
DefaultMaskBits == 32

\* No second generation runs in the process.
IdlePeer == peer = <<>>

\* No module-level function and no planner is being called.
IdleCalls ==
    tile_grid = <<>> /\ passable_set = {} /\ plot_in = <<>> /\ ret = <<>>

IdleWorld ==
    /\ base_seed = 0 /\ max_plot_attempts = 0 /\ max_geo_attempts = 0
    /\ wpc = "none" /\ plot_attempt = 0 /\ geo_attempt = 0
    /\ graph = <<>> /\ key_locations = <<>>
    /\ world = <<>> /\ chosen = <<>>
    /\ planner_runs = 0 /\ geo_runs = 0 /\ completable = "none"
    /\ calls = 0 /\ prev = <<>>

\* BitwiseWFC(width, height, num_tiles): __post_init__ calls reset().
Init ==
    /\ width \in 1 .. MaxW
    /\ height \in 1 .. MaxH
    /\ num_tiles \in 1 .. MaxTiles
    /\ mask_bits = DefaultMaskBits
    /\ constraints = EmptyConstraints
    /\ grid = ResetGrid(width, height, num_tiles)
    /\ prop_stack = <<>>
    /\ phase = "setup" /\ gen_left = 0 /\ gen_result = "none"
    /\ forced = {} /\ rules = 0 /\ ncollapse = 0
    /\ rng = 0
    /\ IdleWorld /\ IdlePeer /\ IdleCalls

\* The driver calls collapse, propagate and generate on a solver whose
\* generate has not returned yet; after generate it starts over with reset.
Callable == phase \in {"setup", "idle"} /\ gen_result = "none"

SetSymmetric ==
    /\ phase = "setup" /\ rules < MaxRules
    /\ \E a \in 0 .. num_tiles - 1, b \in 0 .. num_tiles - 1 :
          constraints' = set_symmetric_constraint(constraints, a, b)
    /\ rules' = rules + 1
    /\ UNCHANGED <<width, height, num_tiles, mask_bits, grid, prop_stack,
                   phase, gen_left, gen_result, forced, ncollapse,
                   rng, worldVars, peer, callVars>>

SetDirectional ==
    /\ phase = "setup" /\ rules < MaxRules
    /\ \E a \in 0 .. num_tiles - 1, b \in 0 .. num_tiles - 1,
          d \in {"N", "E", "S", "W"} :
          constraints' = set_directional_constraint(constraints, a, b, d)
    /\ rules' = rules + 1
    /\ UNCHANGED <<width, height, num_tiles, mask_bits, grid, prop_stack,
                   phase, gen_left, gen_result, forced, ncollapse,
                   rng, worldVars, peer, callVars>>

\* wfc.reset()
Reset ==
    /\ phase \in {"setup", "idle"}
    /\ SetSelf(reset(Self))
    /\ phase' = "idle" /\ forced' = {} /\ ncollapse' = 0
    /\ gen_result' = "none"
    /\ UNCHANGED <<gen_left, rules, rng, worldVars, peer, callVars>>

\* wfc.collapse(x, y, tile_id) from outside, tile_id possibly out of range.
Collapse ==
    /\ Callable /\ ncollapse < MaxForced
    /\ \E c \in Cells(width, height), t \in -1 .. num_tiles :
          LET r == collapse(Self, c, t)
          IN /\ SetSelf(r.s)
             /\ forced' = IF r.ok THEN forced \cup {c} ELSE forced
    /\ phase' = "idle" /\ ncollapse' = ncollapse + 1
    /\ UNCHANGED <<gen_left, gen_result, rules, rng, worldVars, peer, callVars>>

\* wfc.collapse(x, y) from outside: the tile is drawn.
CollapseAny ==
    /\ Callable /\ ncollapse < MaxForced
    /\ \E c \in Cells(width, height) :
          \E target \in 0 .. Max(0, popcount(grid[c].possibilities, mask_bits) - 1) :
             SetSelf(collapse_random(Self, c, target).s)
    /\ phase' = "idle" /\ ncollapse' = ncollapse + 1
    /\ UNCHANGED <<gen_left, gen_result, forced, rules, rng, worldVars, peer, callVars>>

\* wfc.propagate() from outside.
Propagate ==
    /\ Callable
    /\ prop_stack # <<>>
    /\ SetSelf(propagate(Self).s)
    /\ phase' = "idle"
    /\ UNCHANGED <<gen_left, gen_result, forced, rules, ncollapse, rng, worldVars, peer, callVars>>

\* wfc.generate(max_iterations) is entered.
GenerateCall ==
    /\ Callable
    /\ \E m \in (0 .. MaxIter) \cup {DefaultMaxIterations} :
          /\ gen_left' = m
          /\ phase' = IF m = 0 THEN "idle" ELSE "gen"
          /\ gen_result' = IF m = 0 THEN "fail" ELSE "none"
    /\ UNCHANGED <<solverVars, forced, rules, ncollapse, rng, worldVars, peer, callVars>>

\* generate: what one pass leaves, r being its result.
GeneratePassResult(r) ==
    /\ SetSelf(r.s)
    /\ IF r.done
       THEN /\ phase' = "idle" /\ gen_left' = 0
            /\ gen_result' = IF r.ok THEN "ok" ELSE "fail"
       ELSE IF gen_left = 1
       THEN /\ phase' = "idle" /\ gen_left' = 0
            /\ gen_result' = "fail"
       ELSE /\ phase' = "gen" /\ gen_left' = gen_left - 1
            /\ gen_result' = "none"

\* The cells find_min_entropy_cell can return, given its scan result.
MinEntropyChoices(fm) ==
    IF fm[1] = "cell" THEN {fm[2]}
    ELSE IF fm[2] = <<>> THEN {NoCell}
    ELSE {fm[2][i] : i \in 1 .. Len(fm[2])}

\* One pass of the loop of generate; the last one returns.
GeneratePass ==
    /\ phase = "gen"
    /\ \E c \in MinEntropyChoices(find_min_entropy_cell(Self)) :
         \E target \in 0 .. (IF c = NoCell THEN 0
                              ELSE Max(0, popcount(grid[c].possibilities, mask_bits) - 1)) :
            GeneratePassResult(generate_pass(Self, c, target))
    /\ UNCHANGED <<forced, rules, ncollapse, rng, worldVars, peer, callVars>>

Next ==
    \/ SetSymmetric
    \/ SetDirectional
    \/ Reset
    \/ Collapse
    \/ CollapseAny
    \/ Propagate
    \/ GenerateCall
    \/ GeneratePass

Spec == Init /\ [][Next]_vars

(***************************************************************************)
(* Module random, as the program uses it.  The generator is a value; a     *)
(* draw returns the value drawn and the generator's next state.  The       *)
(* stream is a fixed function of the seed, which is all the program relies *)
(* on.                                                                     *)
(***************************************************************************)
\* random.seed(seed)
SeedState(seed) == (seed * 7919 + 104729) % 65537

NextRng(r) == (75 * r + 74) % 65537

\* _randbelow(n)
randbelow(r, n) == [v |-> NextRng(r) % n, rng |-> NextRng(r)]

\* random.randint(a, b)
randint(r, a, b) ==
    LET d == randbelow(r, b - a + 1) IN [v |-> a + d.v, rng |-> d.rng]

\* random.choice(seq)
choice(r, seq) ==
    LET d == randbelow(r, Len(seq)) IN [v |-> seq[d.v + 1], rng |-> d.rng]

Swap(seq, i, j) == [seq EXCEPT ![i] = seq[j], ![j] = seq[i]]

\* random.shuffle(x): for i in reversed(range(1, len(x))): j = randbelow(i + 1);
\* x[i], x[j] = x[j], x[i].  `i` is the 0-based index of the code.
RECURSIVE ShuffleFrom(_, _, _)
ShuffleFrom(r, seq, i) ==
    IF i < 1 THEN [v |-> seq, rng |-> r]
    ELSE LET d == randbelow(r, i + 1)
         IN ShuffleFrom(d.rng, Swap(seq, i + 1, d.v + 1), i - 1)

shuffle(r, seq) == ShuffleFrom(r, seq, Len(seq) - 1)

(***************************************************************************)
(* plot.py: Propp functions, requirement bits, templates, PlotGraph        *)
(***************************************************************************)
\* ProppFunction
LACK        == 0
DEPARTURE   == 1
DONOR_TEST  == 2
ACQUISITION == 3
GUIDANCE    == 4
STRUGGLE    == 5
VICTORY     == 6
RETURN      == 7

\* Requirement / Provides: the bit positions (HERO_EXISTS is 1 << 0, ...).
HERO_EXISTS    == 0
HAS_WEAPON     == 1
HAS_KEY        == 2
HAS_INFO       == 3
HAS_ALLY       == 4
HAS_ACCESS     == 5
VILLAIN_WEAK   == 6
AT_GOAL        == 7
QUEST_COMPLETE == 8

\* One template (base_requires, base_provides, description, location_hint);
\* the description is display text and is left out.
Template(req, prov, loc) ==
    [requires |-> req, provides |-> prov, location_hint |-> loc]

PLOT_TEMPLATES ==
    [f \in 0 .. 7 |->
        CASE f = LACK ->
               << Template({}, {HERO_EXISTS}, "village"),
                  Template({}, {HERO_EXISTS}, "home"),
                  Template({}, {HERO_EXISTS}, "castle") >>
          [] f = DEPARTURE ->
               << Template({HERO_EXISTS}, {HAS_ACCESS}, "road"),
                  Template({HERO_EXISTS}, {HAS_ACCESS}, "clearing"),
                  Template({HERO_EXISTS, HAS_INFO}, {HAS_ACCESS}, "road") >>
          [] f = DONOR_TEST ->
               << Template({HAS_ACCESS}, {}, "temple"),
                  Template({HAS_ACCESS}, {}, "tavern"),
                  Template({HAS_ACCESS}, {VILLAIN_WEAK}, "ruins") >>
          [] f = ACQUISITION ->
               << Template({HAS_ACCESS}, {HAS_WEAPON}, "cave"),
                  Template({HAS_ACCESS}, {HAS_KEY}, "tower"),
                  Template({HAS_ACCESS}, {HAS_INFO}, "temple"),
                  Template({HAS_ACCESS}, {HAS_ALLY}, "tavern") >>
          [] f = GUIDANCE ->
               << Template({HAS_ACCESS}, {AT_GOAL}, "mountain"),
                  Template({HAS_ACCESS, HAS_KEY}, {AT_GOAL}, "castle"),
                  Template({HAS_ACCESS, HAS_INFO}, {AT_GOAL}, "dungeon") >>
          [] f = STRUGGLE ->
               << Template({AT_GOAL, HAS_WEAPON}, {VILLAIN_WEAK}, "dungeon"),
                  Template({AT_GOAL}, {VILLAIN_WEAK}, "tower"),
                  Template({AT_GOAL, HAS_ALLY}, {VILLAIN_WEAK}, "cave") >>
          [] f = VICTORY ->
               << Template({VILLAIN_WEAK, HAS_WEAPON}, {QUEST_COMPLETE}, "dungeon"),
                  Template({VILLAIN_WEAK, HAS_INFO}, {QUEST_COMPLETE}, "tower"),
                  Template({VILLAIN_WEAK, HAS_ALLY}, {QUEST_COMPLETE}, "castle") >>
          [] f = RETURN ->
               << Template({QUEST_COMPLETE}, {}, "village"),
                  Template({QUEST_COMPLETE}, {}, "castle"),
                  Template({QUEST_COMPLETE}, {HAS_INFO}, "home") >>]

\* PlotNode(function, requires, provides, location_hint), id not yet given
PlotNode(func, t) ==
    [function |-> func, requires |-> t.requires, provides |-> t.provides,
     id |-> -1, location_hint |-> t.location_hint]

\* PlotGraph(): nodes, edges and reverse_edges are indexed by id + 1.
PlotGraph == [nodes |-> <<>>, edges |-> <<>>, reverse_edges |-> <<>>]

\* `x in list`
InSeq(x, seq) == \E i \in 1 .. Len(seq) : seq[i] = x

\* add_node(node): the id it returns is len(nodes) before the call.
add_node(g, node) ==
    [nodes |-> Append(g.nodes, [node EXCEPT !.id = Len(g.nodes)]),
     edges |-> Append(g.edges, <<>>),
     reverse_edges |-> Append(g.reverse_edges, <<>>)]

\* add_edge(from_id, to_id)
add_edge(g, from_id, to_id) ==
    [g EXCEPT
       !.edges[from_id + 1] =
           IF InSeq(to_id, @) THEN @ ELSE Append(@, to_id),
       !.reverse_edges[to_id + 1] =
           IF InSeq(from_id, @) THEN @ ELSE Append(@, from_id)]

\* get_roots(): ids without predecessors, in id order.
RECURSIVE RootsFrom(_, _)
RootsFrom(g, i) ==
    IF i > Len(g.nodes) THEN <<>>
    ELSE (IF g.reverse_edges[i] = <<>> THEN <<i - 1>> ELSE <<>>)
         \o RootsFrom(g, i + 1)

get_roots(g) == RootsFrom(g, 1)

\* list.remove(x): drops the first occurrence.
RemoveFirst(seq, x) ==
    LET i == CHOOSE k \in 1 .. Len(seq) :
                 seq[k] = x /\ \A m \in 1 .. k - 1 : seq[m] # x
    IN SubSeq(seq, 1, i - 1) \o SubSeq(seq, i + 1, Len(seq))

\* topological_sort, the inner loop over self.edges[node], from index k.
RECURSIVE TopoSuccs(_, _, _, _)
TopoSuccs(succs, k, in_degree, queue) ==
    IF k > Len(succs) THEN [in_degree |-> in_degree, queue |-> queue]
    ELSE LET succ == succs[k]
             d    == in_degree[succ + 1] - 1
         IN TopoSuccs(succs, k + 1,
                      [in_degree EXCEPT ![succ + 1] = d],
                      IF d = 0 THEN Append(queue, succ) ELSE queue)

\* topological_sort, the loop `while queue`.
RECURSIVE TopoLoop(_, _, _, _, _)

\* One pass after the successors of `node` were handled (nx).
TopoAfterSuccs(g, nx, node, result, r) ==
    TopoLoop(g, nx.in_degree, nx.queue, Append(result, node), r)

\* One pass with the node `pick` drawn by random.choice(queue).
TopoWithNode(g, in_degree, queue, result, pick) ==
    TopoAfterSuccs(g,
                   TopoSuccs(g.edges[pick.v + 1], 1, in_degree,
                             RemoveFirst(queue, pick.v)),
                   pick.v, result, pick.rng)

TopoLoop(g, in_degree, queue, result, r) ==
    IF queue = <<>> THEN [result |-> result, rng |-> r]
    ELSE TopoWithNode(g, in_degree, queue, result, choice(r, queue))

\* The return without the length check: whatever the loop collected.
TopoReturnPartial(g, run) == run

\* topological_sort, the return: [] when a cycle keeps some node back.
TopoReturn(g, run) ==
    [result |-> IF Len(run.result) = Len(g.nodes) THEN run.result ELSE <<>>,
     rng |-> run.rng]

\* topological_sort, with in_degree built.
TopoFrom(g, in_degree, r) ==
    TopoReturn(g, TopoLoop(g, in_degree,
                           SelectSeq([i \in 1 .. Len(g.nodes) |-> i - 1],
                                     LAMBDA n : in_degree[n + 1] = 0),
                           <<>>, r))

\* PlotGraph.topological_sort(): Kahn's algorithm, the ready node drawn
\* with random.choice.
topological_sort(g, r) ==
    TopoFrom(g, [i \in 1 .. Len(g.nodes) |-> Len(g.reverse_edges[i])], r)

(***************************************************************************)
(* plot.py: BackwardPlotGenerator                                          *)
(***************************************************************************)
\* best_func is None
NoBest == [func |-> -1, template |-> Template({}, {}, ""), provides |-> 0]

\* The test `if provides_needed` left out: the first template met wins.
SelectFirstTemplate(templates, func, k, unsatisfied, best) ==
    IF best.func = -1 /\ k <= Len(templates[func])
    THEN [func |-> func, template |-> templates[func][k], provides |-> 1]
    ELSE best

\* generate, the loop over PLOT_TEMPLATES[func], from index k.
RECURSIVE SelectTemplates(_, _, _, _, _)
SelectTemplates(templates, func, k, unsatisfied, best) ==
    IF k > Len(templates[func]) THEN best
    ELSE LET t == templates[func][k]
             provides_needed == t.provides \cap unsatisfied
         IN IF provides_needed # {}
               /\ MaskValue(provides_needed) > best.provides
            THEN SelectTemplates(templates, func, k + 1, unsatisfied,
                    [func |-> func, template |-> t,
                     provides |-> MaskValue(provides_needed)])
            ELSE SelectTemplates(templates, func, k + 1, unsatisfied, best)

RECURSIVE SelectFunctionsAny(_, _, _, _, _, _)
\* The loop over the shuffled functions with the skip of used functions
\* left out.
SelectFunctionsAny(templates, functions, i, used_functions, unsatisfied, best) ==
    IF i > Len(functions) THEN best
    ELSE SelectFunctionsAny(templates, functions, i + 1, used_functions,
                            unsatisfied,
                            SelectTemplates(templates, functions[i], 1,
                                            unsatisfied, best))

\* generate, the loop over the shuffled functions, from index i.
RECURSIVE SelectFunctions(_, _, _, _, _, _)
SelectFunctions(templates, functions, i, used_functions, unsatisfied, best) ==
    IF i > Len(functions) THEN best
    ELSE LET func == functions[i]
         IN IF func \in used_functions /\ func \notin {ACQUISITION, DONOR_TEST}
            THEN SelectFunctions(templates, functions, i + 1, used_functions,
                                 unsatisfied, best)
            ELSE SelectFunctions(templates, functions, i + 1, used_functions,
                                 unsatisfied,
                                 SelectTemplates(templates, func, 1,
                                                 unsatisfied, best))

\* The edge loop left out: the graph comes back as it went in.
ConnectNothing(g, new_id, prov, pending_nodes, k) == g

\* The edge loop cut short: only the first pending node that needs what the
\* new node provides gets its edge.
ConnectFirstNeed(g, new_id, prov, pending_nodes, k) ==
    IF \A i \in k .. Len(pending_nodes) : prov \cap pending_nodes[i][2] = {}
    THEN g
    ELSE add_edge(g, new_id,
                  pending_nodes[SetMin({i \in k .. Len(pending_nodes) :
                      prov \cap pending_nodes[i][2] # {}})][1])

\* generate: "connect new node to nodes that need what it provides".
RECURSIVE ConnectNeeds(_, _, _, _, _)
ConnectNeeds(g, new_id, prov, pending_nodes, k) ==
    IF k > Len(pending_nodes) THEN g
    ELSE ConnectNeeds(
           IF prov \cap pending_nodes[k][2] # {}
           THEN add_edge(g, new_id, pending_nodes[k][1]) ELSE g,
           new_id, prov, pending_nodes, k + 1)

\* generate: "connect existing nodes that provide what new node requires".
RECURSIVE ConnectProviders(_, _, _, _, _)
ConnectProviders(g, new_id, req, pending_nodes, k) ==
    IF k > Len(pending_nodes) THEN g
    ELSE LET node_id == pending_nodes[k][1]
         IN ConnectProviders(
              IF g.nodes[node_id + 1].provides \cap req # {}
              THEN add_edge(g, node_id, new_id) ELSE g,
              new_id, req, pending_nodes, k + 1)

\* generate, the loop `while unsatisfied and iterations < max_iterations`.
RECURSIVE PlotLoop(_, _, _, _, _, _, _)

\* One pass with the node for template t of function func added as new_id
\* (graph g1): the edges, then the next pass.
PlotConnect(templates, g1, unsatisfied, pending_nodes, used_functions, iterations, func, t, new_id, r) ==
    PlotLoop(templates,
             ConnectProviders(
                 ConnectNeeds(g1, new_id, t.provides, pending_nodes, 1),
                 new_id, t.requires, pending_nodes, 1),
             (unsatisfied \ t.provides) \cup t.requires,
             Append(pending_nodes, <<new_id, t.requires>>),
             used_functions \cup {func},
             iterations + 1, r)

\* One pass with the selection `best` made.
PlotWithBest(templates, g, unsatisfied, pending_nodes, used_functions, iterations, best, r) ==
    IF best.func = -1
    THEN [graph |-> g, unsatisfied |-> unsatisfied,
          iterations |-> iterations + 1, rng |-> r]
    ELSE PlotConnect(templates, add_node(g, PlotNode(best.func, best.template)),
                     unsatisfied, pending_nodes, used_functions, iterations,
                     best.func, best.template, Len(g.nodes), r)

\* One pass with the functions shuffled (sh).
PlotWithOrder(templates, g, unsatisfied, pending_nodes, used_functions, iterations, sh) ==
    PlotWithBest(templates, g, unsatisfied, pending_nodes, used_functions,
                 iterations,
                 SelectFunctions(templates, sh.v, 1, used_functions,
                                 unsatisfied, NoBest),
                 sh.rng)

PlotLoop(templates, g, unsatisfied, pending_nodes, used_functions, iterations, r) ==
    IF unsatisfied = {} \/ iterations >= 20
    THEN [graph |-> g, unsatisfied |-> unsatisfied,
          iterations |-> iterations, rng |-> r]
    ELSE PlotWithOrder(templates, g, unsatisfied, pending_nodes,
                       used_functions, iterations,
                       shuffle(r, <<LACK, DEPARTURE, DONOR_TEST, ACQUISITION,
                                    GUIDANCE, STRUGGLE, VICTORY, RETURN>>))

\* The acceptance test without the function check: any root will do.
HasRoot(g, roots) == roots # <<>>

\* generate: any(nodes[r].function == LACK for r in roots)
HasLack(g, roots) ==
    \E i \in 1 .. Len(roots) : g.nodes[roots[i] + 1].function = LACK

\* generate, the return: has_lack and len(nodes) >= 4.  `unsatisfied` and
\* `iterations` are the locals as the loop left them.
PlotReturn(run) ==
    [ok |-> HasLack(run.graph, get_roots(run.graph))
            /\ Len(run.graph.nodes) >= 4,
     graph |-> run.graph, unsatisfied |-> run.unsatisfied,
     iterations |-> run.iterations, rng |-> run.rng]

\* generate: the finale function include_return selects.
FinaleFunc(include_return) == IF include_return THEN RETURN ELSE VICTORY

\* generate, from the finale node on.
PlotFromFinale(templates, finale, r) ==
    PlotReturn(PlotLoop(templates, add_node(PlotGraph, finale),
                        finale.requires, <<<<0, finale.requires>>>>,
                        {finale.function}, 0, r))

\* generate, with the finale template drawn (pick).
PlotWithFinale(templates, finale_func, pick) ==
    PlotFromFinale(templates, PlotNode(finale_func, pick.v), pick.rng)

\* BackwardPlotGenerator.generate(include_return) over the given templates:
\* the graph built, whether it is accepted, the generator after.
plot_generate_finale(templates, include_return, r) ==
    PlotWithFinale(templates, FinaleFunc(include_return),
                   choice(r, templates[FinaleFunc(include_return)]))

\* BackwardPlotGenerator.generate(), include_return left at its default.
plot_generate(templates, r) == plot_generate_finale(templates, TRUE, r)

\* verify_completability, the replay over `order` from index k.
RECURSIVE Replay(_, _, _, _)
Replay(g, order, k, state) ==
    IF k > Len(order) THEN TRUE
    ELSE LET node == g.nodes[order[k] + 1]
         IN IF node.requires \cap state # node.requires THEN FALSE
            ELSE Replay(g, order, k + 1, state \cup node.provides)

\* verify_completability, with the order topological_sort returned (ts).
PlotVerifyOrder(g, ts) ==
    [ok |-> ts.result # <<>> /\ Replay(g, ts.result, 1, {}), rng |-> ts.rng]

\* BackwardPlotGenerator.verify_completability()
plot_verify_completability(g, r) == PlotVerifyOrder(g, topological_sort(g, r))

(***************************************************************************)
(* geography.py: tile types, passable tiles, the constraint table          *)
(***************************************************************************)
\* TileType
FOREST   == 0
CLEARING == 1
RIVER    == 2
ROAD     == 3
MOUNTAIN == 4
CAVE     == 5
VILLAGE  == 6
CASTLE   == 7
SWAMP    == 8
RUINS    == 9
TOWER    == 10
LAKE     == 11
BRIDGE   == 12
TAVERN   == 13
TEMPLE   == 14
DUNGEON  == 15

PASSABLE_TILES ==
    {FOREST, CLEARING, ROAD, CAVE, VILLAGE, CASTLE, RUINS, TOWER, BRIDGE,
     TAVERN, TEMPLE, DUNGEON}

\* The symmetric(a, b) and self_neighbor(t) calls of
\* create_geography_constraints, in the order of the source.
GeographyPairs ==
    << <<FOREST, FOREST>>, <<FOREST, CLEARING>>, <<FOREST, ROAD>>,
       <<FOREST, MOUNTAIN>>, <<FOREST, RUINS>>, <<FOREST, SWAMP>>,
       <<CLEARING, CLEARING>>, <<CLEARING, ROAD>>, <<CLEARING, VILLAGE>>,
       <<CLEARING, RUINS>>, <<CLEARING, RIVER>>, <<CLEARING, LAKE>>,
       <<RIVER, RIVER>>, <<RIVER, BRIDGE>>, <<RIVER, LAKE>>, <<RIVER, SWAMP>>,
       <<RIVER, FOREST>>,
       <<ROAD, ROAD>>, <<ROAD, VILLAGE>>, <<ROAD, CASTLE>>, <<ROAD, BRIDGE>>,
       <<ROAD, TAVERN>>, <<ROAD, TEMPLE>>, <<ROAD, TOWER>>,
       <<MOUNTAIN, MOUNTAIN>>, <<MOUNTAIN, CAVE>>, <<MOUNTAIN, TEMPLE>>,
       <<CAVE, FOREST>>, <<CAVE, DUNGEON>>,
       <<VILLAGE, TAVERN>>, <<VILLAGE, CLEARING>>,
       <<CASTLE, TOWER>>, <<CASTLE, CLEARING>>,
       <<TOWER, CLEARING>>, <<TOWER, MOUNTAIN>>,
       <<TAVERN, CLEARING>>,
       <<TEMPLE, CLEARING>>, <<TEMPLE, RUINS>>,
       <<SWAMP, SWAMP>>, <<SWAMP, RUINS>>,
       <<RUINS, RUINS>>, <<RUINS, DUNGEON>>,
       <<LAKE, LAKE>>,
       <<BRIDGE, CLEARING>>,
       <<DUNGEON, RUINS>>, <<DUNGEON, MOUNTAIN>> >>

\* create_geography_constraints(): every tile starts with mask 0 in each
\* direction; symmetric(a, b) ORs bit b into the mask of a and bit a into
\* the mask of b, in all four directions.
create_geography_constraints ==
    [d \in {"N", "E", "S", "W"} |->
        [t \in 0 .. 15 |->
            {u \in 0 .. 15 :
                \E k \in 1 .. Len(GeographyPairs) :
                    \/ GeographyPairs[k] = <<t, u>>
                    \/ GeographyPairs[k] = <<u, t>>}]]

(***************************************************************************)
(* core.py: reachability over a tile grid                                  *)
(***************************************************************************)
\* to_tile_grid(): collapsed_to of every cell, with the grid's dimensions.
to_tile_grid(s) ==
    [width |-> s.width, height |-> s.height,
     tiles |-> [c \in DOMAIN s.grid |-> s.grid[c].collapsed_to]]

\* The neighbours in the order [(0, -1), (1, 0), (0, 1), (-1, 0)].
Neighbours4(c) ==
    << <<c[1], c[2] - 1>>, <<c[1] + 1, c[2]>>,
       <<c[1], c[2] + 1>>, <<c[1] - 1, c[2]>> >>

\* The search left out: every cell of the grid counts as visited.
ReachAllCells(tg, passable, queue, visited) == Cells(tg.width, tg.height)

\* check_reachability, the loop `while queue`: the cells visited.
RECURSIVE ReachLoop(_, _, _, _)
ReachLoop(tg, passable, queue, visited) ==
    IF queue = <<>> THEN visited
    ELSE
      LET c    == Head(queue)
          rest == Tail(queue)
      IN IF c \in visited THEN ReachLoop(tg, passable, rest, visited)
         ELSE IF c \notin Cells(tg.width, tg.height)
              THEN ReachLoop(tg, passable, rest, visited)
         ELSE IF tg.tiles[c] \notin passable
              THEN ReachLoop(tg, passable, rest, visited)
         ELSE LET v2 == visited \cup {c}
              IN ReachLoop(tg, passable,
                           rest \o SelectSeq(Neighbours4(c),
                                             LAMBDA n : n \notin v2),
                           v2)

\* check_reachability, the loop `for target in targets`: the second
\* component of the pair returned (unreachable), given the cells visited.
UnreachableAmong(targets, visited) ==
    {targets[i] : i \in {k \in 1 .. Len(targets) : targets[k] \notin visited}}

\* Every target reported reachable, the grid not looked at.
AllReachable(tg, start, targets, passable) == TRUE

\* check_reachability(grid, start, targets, passable): the first component
\* of the pair returned (all_reachable).
check_reachability(tg, start, targets, passable) ==
    LET visited == ReachLoop(tg, passable, <<start>>, {})
    IN \A i \in 1 .. Len(targets) : targets[i] \in visited

\* check_reachability(grid, start, targets, passable): the pair returned.
check_reachability_pair(tg, start, targets, passable) ==
    [ok |-> check_reachability(tg, start, targets, passable),
     unreachable |->
         UnreachableAmong(targets, ReachLoop(tg, passable, <<start>>, {}))]

\* find_path, the reconstruction loop `while current is not None`; current
\* is None (<<>>) or <<cell>>, visited maps a cell to None or to <<cell>>.
RECURSIVE PathBack(_, _, _)
PathBack(visited, current, path) ==
    IF current = <<>> THEN path
    ELSE PathBack(visited, visited[current[1]], Append(path, current[1]))

\* list(reversed(path))
Reversed(seq) == [i \in 1 .. Len(seq) |-> seq[Len(seq) + 1 - i]]

\* find_path, the loop `while queue`.
RECURSIVE FindPathLoop(_, _, _, _, _)

\* find_path, the loop over the four neighbours of cell c from index k;
\* None is <<>> and a path comes back as <<path>>.
RECURSIVE FindPathNeighbours(_, _, _, _, _, _, _)
FindPathNeighbours(tg, passable, goal, c, k, queue, visited) ==
    IF k > 4 THEN FindPathLoop(tg, passable, goal, queue, visited)
    ELSE IF \/ Neighbours4(c)[k] \notin Cells(tg.width, tg.height)
            \/ Neighbours4(c)[k] \in DOMAIN visited
            \/ tg.tiles[Neighbours4(c)[k]] \notin passable
         THEN FindPathNeighbours(tg, passable, goal, c, k + 1, queue, visited)
    ELSE IF Neighbours4(c)[k] = goal
         THEN <<Reversed(PathBack(visited, <<c>>, <<goal>>))>>
    ELSE FindPathNeighbours(tg, passable, goal, c, k + 1,
                            Append(queue, Neighbours4(c)[k]),
                            visited @@ (Neighbours4(c)[k] :> <<c>>))

FindPathLoop(tg, passable, goal, queue, visited) ==
    IF queue = <<>> THEN <<>>
    ELSE FindPathNeighbours(tg, passable, goal, Head(queue), 1, Tail(queue),
                            visited)

\* find_path(grid, start, goal, passable): <<>> for None, <<path>> for a path.
find_path(tg, start, goal, passable) ==
    IF start = goal THEN << <<start>> >>
    ELSE FindPathLoop(tg, passable, goal, <<start>>, start :> <<>>)

\* The BFS left out: the start cell alone is its component.
ComponentOfStartOnly(tg, passable, queue, visited, component) ==
    [visited |-> visited \cup {queue[1]}, component |-> {queue[1]}]

\* find_connected_components, the BFS from one start cell: the component.
RECURSIVE ComponentLoop(_, _, _, _, _)
ComponentLoop(tg, passable, queue, visited, component) ==
    IF queue = <<>> THEN [visited |-> visited, component |-> component]
    ELSE
      LET c    == Head(queue)
          rest == Tail(queue)
      IN IF c \in visited
         THEN ComponentLoop(tg, passable, rest, visited, component)
         ELSE IF tg.tiles[c] \notin passable
              THEN ComponentLoop(tg, passable, rest, visited, component)
         ELSE LET v2 == visited \cup {c}
              IN ComponentLoop(tg, passable,
                    rest \o SelectSeq(Neighbours4(c),
                              LAMBDA n : n \in Cells(tg.width, tg.height)
                                         /\ n \notin v2),
                    v2, component \cup {c})

\* find_connected_components, the scan over start cells from index k.
RECURSIVE ComponentsFrom(_, _, _, _, _)
ComponentsFrom(tg, passable, order, k, visited) ==
    IF k > Len(order) THEN <<>>
    ELSE
      LET start == order[k]
      IN IF start \in visited \/ tg.tiles[start] \notin passable
         THEN ComponentsFrom(tg, passable, order, k + 1, visited)
         ELSE LET b == ComponentLoop(tg, passable, <<start>>, visited, {})
              IN (IF b.component # {} THEN <<b.component>> ELSE <<>>)
                 \o ComponentsFrom(tg, passable, order, k + 1, b.visited)

\* find_connected_components(grid, passable): the components, in the order
\* their first cell is met.
find_connected_components(tg, passable) ==
    ComponentsFrom(tg, passable, ScanOrder(tg.width, tg.height), 1, {})

(***************************************************************************)
(* core.py: generate() with its draws taken from the random generator      *)
(***************************************************************************)
\* find_min_entropy_cell(): the cell returned (NoCell for None) and the
\* generator after random.choice(candidates), when that is reached; fm is
\* the result of the scan.
MinEntropyPick(fm, r) ==
    IF fm[1] = "cell" THEN [v |-> fm[2], rng |-> r]
    ELSE IF fm[2] = <<>> THEN [v |-> NoCell, rng |-> r]
    ELSE choice(r, fm[2])

find_min_entropy_cell_rng(s, r) == MinEntropyPick(find_min_entropy_cell(s), r)

\* random_set_bit: the index drawn by random.randint(0, count - 1) for the
\* cell c about to be collapsed (no draw when there is nothing to choose).
TargetDraw(s, c, r) ==
    IF c = NoCell THEN [v |-> 0, rng |-> r]
    ELSE IF popcount(s.grid[c].possibilities, s.mask_bits) = 0
         THEN [v |-> 0, rng |-> r]
    ELSE randint(r, 0, popcount(s.grid[c].possibilities, s.mask_bits) - 1)

\* generate(max_iterations), `left` passes of the loop still to run.
RECURSIVE wfc_generate(_, _, _)

\* generate, after one pass returned `pass`.
WfcAfterPass(pass, r, left) ==
    IF pass.done THEN [ok |-> pass.ok, s |-> pass.s, rng |-> r]
    ELSE wfc_generate(pass.s, r, left - 1)

\* generate, one pass with the index tgt drawn for cell c.
WfcWithTarget(s, c, tgt, left) ==
    WfcAfterPass(generate_pass(s, c, tgt.v), tgt.rng, left)

\* generate, one pass with the cell `pick` found.
WfcWithCell(s, pick, left) ==
    WfcWithTarget(s, pick.v, TargetDraw(s, pick.v, pick.rng), left)

wfc_generate(s, r, left) ==
    IF left = 0 THEN [ok |-> FALSE, s |-> s, rng |-> r]
    ELSE WfcWithCell(s, find_min_entropy_cell_rng(s, r), left)

(***************************************************************************)
(* geography.py: GeographyGenerator.  The generator is its solver `s`      *)
(* (self.wfc) and key_locations, a dict kept as the sequence of its        *)
(* <<key, value>> entries in insertion order.                              *)
(***************************************************************************)
\* key in dict
DictHas(dict, key) == \E i \in 1 .. Len(dict) : dict[i][1] = key

\* dict[key] = value
DictSet(dict, key, value) ==
    IF DictHas(dict, key)
    THEN [i \in 1 .. Len(dict) |->
             IF dict[i][1] = key THEN <<key, value>> ELSE dict[i]]
    ELSE Append(dict, <<key, value>>)

\* dict[key]
DictGet(dict, key) ==
    dict[CHOOSE i \in 1 .. Len(dict) : dict[i][1] = key][2]

\* list(dict.values())
DictValues(dict) == [i \in 1 .. Len(dict) |-> dict[i][2]]

\* GeographyGenerator(width, height).wfc
GeographyWFC(w, h) == Solver(w, h, 16, 16, create_geography_constraints)

\* place_anchor, after self.wfc.collapse returned col.
AnchorAfterCollapse(col, key_locs, c, name) ==
    [ok |-> col.ok, raised |-> col.raised, s |-> col.s,
     key_locations |-> IF col.ok THEN DictSet(key_locs, name, c)
                       ELSE key_locs]

\* place_anchor(x, y, tile_type, name)
place_anchor(s, key_locs, c, tile_type, name) ==
    AnchorAfterCollapse(collapse(s, c, tile_type), key_locs, c, name)

\* generate: the tile re-placed on an anchor cell with the given
\* possibilities: tile = poss & -poss;
\* tile_id = (tile - 1).bit_length() - 1 if tile > 1 else 0.
AnchorTileId(possibilities) ==
    LET k == lowest_bit(possibilities)
    IN IF k >= 1 THEN k - 1 ELSE 0

\* generate, the loop over anchors_copy from index k.
RECURSIVE ReplaceAnchors(_, _, _, _)

\* One pass, after place_anchor returned pa.
ReplaceAfterAnchor(pa, anchors_copy, k) ==
    IF ~pa.ok
    THEN [all_placed |-> FALSE, s |-> pa.s, key_locations |-> pa.key_locations]
    ELSE ReplaceAnchors(pa.s, anchors_copy, k + 1, pa.key_locations)

\* One pass, for the anchor `name` at c, whose cell is `cell`.
ReplaceAt(s, anchors_copy, k, key_locs, name, c, cell) ==
    IF cell.possibilities = {}
    THEN [all_placed |-> FALSE, s |-> s, key_locations |-> key_locs]
    ELSE ReplaceAfterAnchor(
           place_anchor(s, key_locs, c, AnchorTileId(cell.possibilities), name),
           anchors_copy, k)

ReplaceAnchors(s, anchors_copy, k, key_locs) ==
    IF k > Len(anchors_copy)
    THEN [all_placed |-> TRUE, s |-> s, key_locations |-> key_locs]
    ELSE ReplaceAt(s, anchors_copy, k, key_locs, anchors_copy[k][1],
                   anchors_copy[k][2],
                   s.grid[GridCell(s, anchors_copy[k][2])])

\* _check_key_reachability()
check_key_reachability(s, key_locs) ==
    IF Len(key_locs) < 2 THEN TRUE
    ELSE LET positions == DictValues(key_locs)
         IN check_reachability(to_tile_grid(s), positions[1],
                               Tail(positions), PASSABLE_TILES)

\* GeographyGenerator.generate(max_attempts), `left` attempts still to run.
RECURSIVE geo_generate(_, _, _, _)

\* generate, one attempt after self.wfc.generate() returned g.
GeoAfterWfc(g, key_locs, left) ==
    IF g.ok /\ check_key_reachability(g.s, key_locs)
    THEN [ok |-> TRUE, s |-> g.s, key_locations |-> key_locs, rng |-> g.rng]
    ELSE geo_generate(g.s, key_locs, g.rng, left - 1)

\* generate, one attempt after the anchors were re-placed (rp).
GeoAfterReplace(rp, r, left) ==
    IF ~rp.all_placed THEN geo_generate(rp.s, rp.key_locations, r, left - 1)
    ELSE GeoAfterWfc(wfc_generate(rp.s, r, DefaultMaxIterations),
                     rp.key_locations, left)

geo_generate(s, key_locs, r, left) ==
    IF left = 0
    THEN [ok |-> FALSE, s |-> s, key_locations |-> key_locs, rng |-> r]
    ELSE GeoAfterReplace(ReplaceAnchors(reset(s), key_locs, 1, <<>>), r, left)

\* get_connected_regions()
get_connected_regions(s) ==
    find_connected_components(to_tile_grid(s), PASSABLE_TILES)

(***************************************************************************)
(* integration.py: WorldState and the helpers of WorldGenerator            *)
(***************************************************************************)
\* LOCATION_TO_TILES.get(loc_hint, [TileType.CLEARING])
LOCATION_TO_TILES(loc_hint) ==
    CASE loc_hint = "village"  -> <<VILLAGE>>
      [] loc_hint = "home"     -> <<VILLAGE, TAVERN>>
      [] loc_hint = "road"     -> <<ROAD, BRIDGE>>
      [] loc_hint = "cave"     -> <<CAVE>>
      [] loc_hint = "dungeon"  -> <<DUNGEON, CAVE>>
      [] loc_hint = "tower"    -> <<TOWER>>
      [] loc_hint = "castle"   -> <<CASTLE>>
      [] loc_hint = "ruins"    -> <<RUINS>>
      [] loc_hint = "temple"   -> <<TEMPLE>>
      [] loc_hint = "tavern"   -> <<TAVERN>>
      [] loc_hint = "forest"   -> <<FOREST>>
      [] loc_hint = "mountain" -> <<MOUNTAIN, CAVE>>
      [] loc_hint = "clearing" -> <<CLEARING>>
      [] OTHER                 -> <<CLEARING>>

\* WorldState(): None is the empty sequence, an object the one-entry
\* sequence holding it; node_locations is a dict (entries in insertion
\* order).  The fields of the advanced and fractal plots stay None for a
\* simple plot and are left out.
WorldState ==
    [plot |-> <<>>, geography |-> <<>>, node_locations |-> <<>>,
     plot_seed |-> 0, geo_seed |-> 0, attempts |-> 0]

\* WorldState.is_valid()
is_valid(ws) == ws.plot # <<>> /\ ws.geography # <<>>

\* _extract_locations(): node.id -> location_hint for the nodes with a hint.
RECURSIVE ExtractFrom(_, _)
ExtractFrom(nodes, k) ==
    IF k > Len(nodes) THEN <<>>
    ELSE (IF nodes[k].location_hint # ""
          THEN << <<nodes[k].id, nodes[k].location_hint>> >> ELSE <<>>)
         \o ExtractFrom(nodes, k + 1)

extract_locations(ws) ==
    IF ws.plot = <<>> THEN <<>> ELSE ExtractFrom(ws.plot[1].nodes, 1)

\* int(count ** 0.5)
ISqrt(n) == CHOOSE k \in 0 .. n : k * k <= n /\ (k + 1) * (k + 1) > n

\* _generate_spread_positions, the loop from i on; `positions` holds the
\* entries appended so far.
RECURSIVE SpreadFrom(_, _, _, _, _, _, _, _, _)

\* One pass with both jitters drawn.
SpreadWithY(w, h, cols, cell_w, cell_h, count, i, positions, jitter_x, jitter_y) ==
    SpreadFrom(w, h, cols, cell_w, cell_h, count, i + 1,
               Append(positions,
                      << Max(1, Min(w - 2, (i % cols) * cell_w
                                           + cell_w \div 2 + jitter_x)),
                         Max(1, Min(h - 2, (i \div cols) * cell_h
                                           + cell_h \div 2 + jitter_y.v)) >>),
               jitter_y.rng)

\* One pass with jitter_x drawn.
SpreadWithX(w, h, cols, cell_w, cell_h, count, i, positions, jitter_x) ==
    SpreadWithY(w, h, cols, cell_w, cell_h, count, i, positions, jitter_x.v,
                randint(jitter_x.rng, (-cell_h) \div 3, cell_h \div 3))

SpreadFrom(w, h, cols, cell_w, cell_h, count, i, positions, r) ==
    IF i >= count THEN [v |-> positions, rng |-> r]
    ELSE SpreadWithX(w, h, cols, cell_w, cell_h, count, i, positions,
                     randint(r, (-cell_w) \div 3, cell_w \div 3))

\* _generate_spread_positions, with cols computed.
SpreadCols(w, h, count, cols, r) ==
    SpreadFrom(w, h, cols, w \div cols,
               h \div ((count + cols - 1) \div cols), count, 0, <<>>, r)

\* _generate_spread_positions(count), count >= 1
generate_spread_positions(w, h, count, r) ==
    SpreadCols(w, h, count, Max(2, ISqrt(count) + 1), r)

\* _place_plot_anchors: the fallback loop over [(0, 1), (1, 0), (0, -1),
\* (-1, 0)] from index k; `placed` tells whether one of them took it.
RECURSIVE PlaceAdjacent(_, _, _, _, _, _)

\* The fallback loop, after place_anchor on neighbour nc returned pa.
AdjacentAfterAnchor(pa, c, nc, tile_type, name, k) ==
    IF pa.ok
    THEN [placed |-> TRUE, s |-> pa.s, key_locations |-> pa.key_locations,
          pos |-> nc]
    ELSE PlaceAdjacent(pa.s, pa.key_locations, c, tile_type, name, k + 1)

\* The fallback loop, for the neighbour nc.
AdjacentAt(s, key_locs, c, nc, tile_type, name, k) ==
    IF ~(0 <= nc[1] /\ nc[1] < s.width /\ 0 <= nc[2] /\ nc[2] < s.height)
    THEN PlaceAdjacent(s, key_locs, c, tile_type, name, k + 1)
    ELSE AdjacentAfterAnchor(place_anchor(s, key_locs, nc, tile_type, name),
                             c, nc, tile_type, name, k)

\* The offsets tried, in the order of the source.
AdjacentOffsets == << <<0, 1>>, <<1, 0>>, <<0, -1>>, <<-1, 0>> >>

PlaceAdjacent(s, key_locs, c, tile_type, name, k) ==
    IF k > 4
    THEN [placed |-> FALSE, s |-> s, key_locations |-> key_locs, pos |-> c]
    ELSE AdjacentAt(s, key_locs, c,
                    <<c[1] + AdjacentOffsets[k][1], c[2] + AdjacentOffsets[k][2]>>,
                    tile_type, name, k)

\* _place_plot_anchors, the loop over location_list from index i (1-based).
\* status: "ok" (True), "fail" (False), "raised" (IndexError from collapse).
\* tile_types records the tile type drawn for each node.
RECURSIVE PlaceLoop(_, _, _, _, _, _, _, _)

\* One pass, after the fallback loop returned adj.
PlaceAfterAdjacent(adj, node_locs, tile_types, node_id, location_list, positions, i, r) ==
    IF ~adj.placed
    THEN [status |-> "fail", s |-> adj.s, key_locations |-> adj.key_locations,
          node_locations |-> node_locs, chosen |-> tile_types, rng |-> r]
    ELSE PlaceLoop(adj.s, adj.key_locations,
                   DictSet(node_locs, node_id, adj.pos), tile_types,
                   location_list, positions, i + 1, r)

\* One pass, after place_anchor(x, y, tile_type, name) returned pa.
PlaceAfterAnchor(pa, node_locs, tile_types, node_id, tile_type, location_list, positions, i, r) ==
    IF pa.raised
    THEN [status |-> "raised", s |-> pa.s, key_locations |-> pa.key_locations,
          node_locations |-> node_locs, chosen |-> tile_types, rng |-> r]
    ELSE IF pa.ok
    THEN PlaceLoop(pa.s, pa.key_locations,
                   DictSet(node_locs, node_id, positions[i]), tile_types,
                   location_list, positions, i + 1, r)
    ELSE PlaceAfterAdjacent(
           PlaceAdjacent(pa.s, pa.key_locations, positions[i], tile_type,
                         <<"plot", node_id>>, 1),
           node_locs, tile_types, node_id, location_list, positions, i, r)

\* One pass, with the tile type drawn (pick) for node node_id.
PlaceWithTile(s, key_locs, node_locs, tile_types, node_id, location_list, positions, i, pick) ==
    PlaceAfterAnchor(
        place_anchor(s, key_locs, positions[i], pick.v, <<"plot", node_id>>),
        node_locs, DictSet(tile_types, node_id, pick.v), node_id, pick.v,
        location_list, positions, i, pick.rng)

PlaceLoop(s, key_locs, node_locs, tile_types, location_list, positions, i, r) ==
    IF i > Len(location_list) \/ i > Len(positions)
    THEN [status |-> "ok", s |-> s, key_locations |-> key_locs,
          node_locations |-> node_locs, chosen |-> tile_types, rng |-> r]
    ELSE PlaceWithTile(s, key_locs, node_locs, tile_types,
                       location_list[i][1], location_list, positions, i,
                       choice(r, LOCATION_TO_TILES(location_list[i][2])))

\* _place_plot_anchors, with location_list shuffled (sh):
\* self.world.node_locations = {} and the loop.
PlaceShuffled(s, key_locs, positions, sh) ==
    PlaceLoop(s, key_locs, <<>>, <<>>, sh.v, positions, 1, sh.rng)

\* _place_plot_anchors, with the positions generated.
PlaceAtPositions(s, key_locs, required_locations, positions) ==
    PlaceShuffled(s, key_locs, positions.v,
                  shuffle(positions.rng, required_locations))

\* _place_plot_anchors(required_locations); node_locs is
\* self.world.node_locations before the call.
place_plot_anchors(s, key_locs, node_locs, required_locations, r) ==
    IF Len(required_locations) = 0
    THEN [status |-> "ok", s |-> s, key_locations |-> key_locs,
          node_locations |-> node_locs, chosen |-> <<>>, rng |-> r]
    ELSE PlaceAtPositions(s, key_locs, required_locations,
             generate_spread_positions(s.width, s.height,
                                       Len(required_locations), r))

\* _verify_reachability()
verify_reachability(s, node_locs) ==
    IF Len(node_locs) < 2 THEN TRUE
    ELSE LET positions == DictValues(node_locs)
         IN check_reachability(to_tile_grid(s), positions[1],
                               Tail(positions), PASSABLE_TILES)

\* verify_completability: the scan for main_region over regions from k on.
RECURSIVE MainRegion(_, _, _, _)
MainRegion(regions, node_locs, k, main_region) ==
    IF k > Len(regions) THEN main_region
    ELSE
      LET region == regions[k]
          positions_in_region ==
              Cardinality({i \in 1 .. Len(node_locs) : node_locs[i][2] \in region})
      IN MainRegion(regions, node_locs, k + 1,
            IF positions_in_region > 0
               /\ (main_region = <<>>
                   \/ Cardinality(region) > Cardinality(main_region[1]))
            THEN <<region>> ELSE main_region)

\* verify_completability, with main_region found.
VerifyInMain(node_locs, main_region) ==
    \/ main_region = <<>>
    \/ \A i \in 1 .. Len(node_locs) : node_locs[i][2] \in main_region[1]

\* verify_completability, the geography part, with the regions computed.
VerifyRegions(node_locs, regions) ==
    /\ Len(regions) # 0
    /\ VerifyInMain(node_locs, MainRegion(regions, node_locs, 1, <<>>))

\* verify_completability, after the plot was checked (pv).
VerifyAfterPlot(ws, s, pv) ==
    [ok |-> pv.ok /\ VerifyRegions(ws.node_locations, get_connected_regions(s)),
     rng |-> pv.rng]

\* WorldGenerator.verify_completability(): the boolean of the pair returned
\* and the generator after the draws of topological_sort.
verify_completability(ws, g, s, r) ==
    IF ~is_valid(ws) THEN [ok |-> FALSE, rng |-> r]
    ELSE VerifyAfterPlot(ws, s, plot_verify_completability(g, r))

(***************************************************************************)
(* WorldSpec: WorldGenerator.generate (simple plot) and its callers.       *)
(* The solver variables are geo_gen.wfc, key_locations is                  *)
(* geo_gen.key_locations, graph is plot_gen.graph.                         *)
(***************************************************************************)
DefaultGeoMaxAttempts == 10

\* A reset that leaves the random generator as it finds it.
plot_reset_unseeded(r, seed) == r

\* BackwardPlotGenerator.reset(seed): the random generator after it.
plot_reset(r, seed) == SeedState(seed)

\* GeographyGenerator.reset(seed)
geo_reset(s, r, seed) ==
    [s |-> reset(s), key_locations |-> <<>>, rng |-> SeedState(seed)]

\* WorldGenerator(width, height, seed)
WorldInit ==
    /\ \E d \in WorldDims : width = d[1] /\ height = d[2]
    /\ num_tiles = 16 /\ mask_bits = 16
    /\ constraints = create_geography_constraints
    /\ grid = ResetGrid(width, height, num_tiles)
    /\ prop_stack = <<>>
    /\ phase = "world" /\ gen_left = 0 /\ gen_result = "none"
    /\ forced = {} /\ rules = 0 /\ ncollapse = 0
    /\ rng = 0
    /\ base_seed \in 0 .. MaxSeed
    /\ max_plot_attempts \in 0 .. MaxPlotAttempts
    /\ max_geo_attempts \in 0 .. MaxGeoAttempts
    /\ wpc = "idle" /\ plot_attempt = 0 /\ geo_attempt = 0
    /\ graph = PlotGraph /\ key_locations = <<>>
    /\ world = WorldState /\ chosen = <<>>
    /\ planner_runs = 0 /\ geo_runs = 0 /\ completable = "none"
    /\ calls = 0 /\ prev = <<>>
    /\ IdlePeer /\ IdleCalls

\* No generate call is running.
Returned == wpc \in {"idle", "done", "failed", "raised"}

\* What the caller sees when a call has ended.
Outcome ==
    [outcome |-> wpc, grid |-> grid, plot |-> world.plot,
     node_locations |-> world.node_locations, geography |-> world.geography]

\* Other code draws from module random between two calls.
AmbientDraw ==
    /\ Returned /\ calls < MaxCalls
    /\ \E r \in 0 .. MaxAmbient : r # rng /\ rng' = r
    /\ UNCHANGED <<solverVars, driverVars, worldVars, peer, callVars>>

\* generate(max_plot_attempts, max_geo_attempts) is entered:
\* self.world = WorldState().
WorldGenerateCall ==
    /\ Returned /\ calls < MaxCalls
    /\ world' = WorldState
    /\ wpc' = "plan" /\ plot_attempt' = 0 /\ geo_attempt' = 0
    /\ planner_runs' = 0 /\ geo_runs' = 0
    /\ chosen' = <<>> /\ completable' = "none"
    /\ calls' = calls + 1
    /\ prev' = IF calls = 1 THEN Outcome ELSE prev
    /\ UNCHANGED <<solverVars, driverVars, rng, base_seed, max_plot_attempts,
                   max_geo_attempts, graph, key_locations, peer, callVars>>

\* One pass of _generate_simple_plot, after plot_gen.generate() returned p.
PlanResult(p, plot_seed) ==
    /\ graph' = p.graph
    /\ rng' = p.rng
    /\ IF p.ok
       THEN /\ world' = [world EXCEPT !.plot = <<p.graph>>,
                                      !.plot_seed = plot_seed]
            /\ wpc' = "geo"
            /\ plot_attempt' = plot_attempt
       ELSE /\ world' = world
            /\ wpc' = "plan"
            /\ plot_attempt' = plot_attempt + 1

\* _generate_simple_plot: one pass of `for plot_attempt in range(max_attempts)`:
\* plot_gen.reset(plot_seed), plot_gen.generate().
PlanAttempt ==
    /\ wpc = "plan" /\ plot_attempt < max_plot_attempts
    /\ PlanResult(plot_generate(PLOT_TEMPLATES,
                                plot_reset(rng, base_seed + plot_attempt * 1000)),
                  base_seed + plot_attempt * 1000)
    /\ planner_runs' = planner_runs + 1
    /\ geo_attempt' = 0
    /\ UNCHANGED <<solverVars, driverVars, base_seed, max_plot_attempts,
                   max_geo_attempts, key_locations, chosen, geo_runs,
                   completable, calls, prev, peer, callVars>>

\* _generate_simple_plot returns False: generate returns False.
PlanExhausted ==
    /\ wpc = "plan" /\ plot_attempt >= max_plot_attempts
    /\ wpc' = "failed"
    /\ UNCHANGED <<solverVars, driverVars, rng, base_seed, max_plot_attempts,
                   max_geo_attempts, plot_attempt, geo_attempt, graph,
                   key_locations, world, chosen, planner_runs, geo_runs,
                   completable, calls, prev, peer, callVars>>

\* The pass with world.geography assigned as soon as the anchors have been
\* tried, before the solver has run.
GeoPlaceAssembles(pl) ==
    /\ SetSelf(pl.s)
    /\ key_locations' = pl.key_locations
    /\ world' = [world EXCEPT !.node_locations = pl.node_locations,
                              !.geography = <<"geo_gen">>]
    /\ chosen' = pl.chosen
    /\ rng' = pl.rng
    /\ wpc' = CASE pl.status = "raised" -> "raised"
                [] pl.status = "ok"     -> "solve"
                [] OTHER                -> "geo"
    /\ geo_attempt' = IF pl.status = "fail" THEN geo_attempt + 1
                      ELSE geo_attempt

\* The pass, after _place_plot_anchors returned pl.
GeoPlaceResult(pl) ==
    /\ SetSelf(pl.s)
    /\ key_locations' = pl.key_locations
    /\ world' = [world EXCEPT !.node_locations = pl.node_locations]
    /\ chosen' = pl.chosen
    /\ rng' = pl.rng
    /\ wpc' = CASE pl.status = "raised" -> "raised"
                [] pl.status = "ok"     -> "solve"
                [] OTHER                -> "geo"
    /\ geo_attempt' = IF pl.status = "fail" THEN geo_attempt + 1
                      ELSE geo_attempt

\* The pass, after geo_gen.reset(geo_seed) returned rs.
GeoPlaceAfterReset(rs) ==
    GeoPlaceResult(place_plot_anchors(rs.s, rs.key_locations,
                                      world.node_locations,
                                      extract_locations(world), rs.rng))

\* One pass of `for geo_attempt in range(max_geo_attempts)`, up to
\* _place_plot_anchors: geo_gen.reset(geo_seed), then the anchors.
GeoPlace ==
    /\ wpc = "geo" /\ geo_attempt < max_geo_attempts
    /\ GeoPlaceAfterReset(geo_reset(Self, rng, base_seed + geo_attempt))
    /\ geo_runs' = geo_runs + 1
    /\ UNCHANGED <<driverVars, base_seed, max_plot_attempts, max_geo_attempts,
                   plot_attempt, graph, planner_runs, completable, calls, prev, peer, callVars>>

\* The pass, after geo_gen.generate() returned g: _verify_reachability(),
\* and on success the assembly of the world and `return True`.
GeoSolveResult(g) ==
    /\ SetSelf(g.s)
    /\ key_locations' = g.key_locations
    /\ rng' = g.rng
    /\ IF g.ok /\ verify_reachability(g.s, world.node_locations)
       THEN /\ world' = [world EXCEPT !.geography = <<"geo_gen">>,
                                      !.geo_seed = base_seed + geo_attempt,
                                      !.attempts = geo_attempt + 1]
            /\ wpc' = "done"
            /\ geo_attempt' = geo_attempt
       ELSE /\ world' = world
            /\ wpc' = "geo"
            /\ geo_attempt' = geo_attempt + 1

\* The rest of the pass: geo_gen.generate() and what follows.
GeoSolve ==
    /\ wpc = "solve"
    /\ GeoSolveResult(geo_generate(Self, key_locations, rng,
                                   DefaultGeoMaxAttempts))
    /\ UNCHANGED <<driverVars, base_seed, max_plot_attempts, max_geo_attempts,
                   plot_attempt, graph, chosen, planner_runs, geo_runs,
                   completable, calls, prev, peer, callVars>>

\* The geography loop ran out and the planner is run again while plan
\* attempts remain.
GeoExhaustedReplan ==
    /\ wpc = "geo" /\ geo_attempt >= max_geo_attempts
    /\ IF plot_attempt + 1 < max_plot_attempts
       THEN wpc' = "plan" /\ plot_attempt' = plot_attempt + 1
       ELSE wpc' = "failed" /\ plot_attempt' = plot_attempt
    /\ UNCHANGED <<solverVars, driverVars, rng, base_seed, max_plot_attempts,
                   max_geo_attempts, geo_attempt, graph, key_locations, world,
                   chosen, planner_runs, geo_runs, completable, calls, prev, peer, callVars>>

\* The geography loop ran out: `return False`.
GeoExhausted ==
    /\ wpc = "geo" /\ geo_attempt >= max_geo_attempts
    /\ wpc' = "failed"
    /\ UNCHANGED <<solverVars, driverVars, rng, base_seed, max_plot_attempts,
                   max_geo_attempts, plot_attempt, geo_attempt, graph,
                   key_locations, world, chosen, planner_runs, geo_runs,
                   completable, calls, prev, peer, callVars>>

\* verify_completability() returned v.
VerifyResult(v) ==
    /\ completable' = IF v.ok THEN "ok" ELSE "fail"
    /\ rng' = v.rng

\* The caller asks verify_completability() of the world a call left.
VerifyCompletability ==
    /\ wpc \in {"done", "failed"} /\ completable = "none"
    /\ VerifyResult(verify_completability(world, graph, Self, rng))
    /\ UNCHANGED <<solverVars, driverVars, base_seed, max_plot_attempts,
                   max_geo_attempts, wpc, plot_attempt, geo_attempt, graph,
                   key_locations, world, chosen, planner_runs, geo_runs,
                   calls, prev, peer, callVars>>

WorldNext ==
    \/ AmbientDraw
    \/ WorldGenerateCall
    \/ PlanAttempt
    \/ PlanExhausted
    \/ GeoPlace
    \/ GeoSolve
    \/ GeoExhausted
    \/ VerifyCompletability

WorldSpec == WorldInit /\ [][WorldNext]_vars

(***************************************************************************)
(* UniformSpec: a solver with one tile type that may neighbour itself on   *)
(* every side, and generate called on it.                                  *)
(***************************************************************************)
\* <<width, height>> of the one-tile solvers.
UniformDims ==
    {<<1, 1>>, <<1, 2>>, <<2, 1>>, <<2, 2>>, <<3, 2>>, <<3, 3>>, <<4, 4>>, <<8, 8>>}

\* BitwiseWFC(width, height, 1) followed by set_symmetric_constraint(0, 0).
UniformInit ==
    /\ \E d \in UniformDims : width = d[1] /\ height = d[2]
    /\ num_tiles = 1
    /\ mask_bits = DefaultMaskBits
    /\ constraints = set_symmetric_constraint(EmptyConstraints, 0, 0)
    /\ grid = ResetGrid(width, height, num_tiles)
    /\ prop_stack = <<>>
    /\ phase = "idle" /\ gen_left = 0 /\ gen_result = "none"
    /\ forced = {} /\ rules = 0 /\ ncollapse = 0
    /\ rng = 0
    /\ IdleWorld /\ IdlePeer /\ IdleCalls

UniformNext == GenerateCall \/ GeneratePass

UniformSpec == UniformInit /\ [][UniformNext]_vars

(***************************************************************************)
(* EntropySpec: solvers with three tile types and an adjacency table       *)
(* authored with set_symmetric_constraint, and generate called on them.    *)
(***************************************************************************)
\* <<width, height>> of the three-tile solvers.
EntropyDims == {<<3, 1>>, <<2, 2>>, <<3, 2>>}

\* The (tile_a, tile_b) arguments of the set_symmetric_constraint calls a
\* table is authored from.
SymmetricPairs == << <<0, 0>>, <<0, 1>>, <<1, 1>>, <<1, 2>>, <<2, 2>> >>

\* The table after set_symmetric_constraint for the pairs whose index is in
\* S, made in the order of SymmetricPairs from index k on.
RECURSIVE AuthoredTable(_, _, _)
AuthoredTable(S, k, cons) ==
    IF k > Len(SymmetricPairs) THEN cons
    ELSE AuthoredTable(S, k + 1,
           IF k \in S
           THEN set_symmetric_constraint(cons, SymmetricPairs[k][1],
                                         SymmetricPairs[k][2])
           ELSE cons)

EntropyInit ==
    /\ \E d \in EntropyDims : width = d[1] /\ height = d[2]
    /\ num_tiles = 3
    /\ mask_bits = DefaultMaskBits
    /\ \E S \in SUBSET (1 .. Len(SymmetricPairs)) :
          constraints = AuthoredTable(S, 1, EmptyConstraints)
    /\ grid = ResetGrid(width, height, num_tiles)
    /\ prop_stack = <<>>
    /\ phase = "idle" /\ gen_left = 0 /\ gen_result = "none"
    /\ forced = {} /\ rules = 0 /\ ncollapse = 0
    /\ rng = 0
    /\ IdleWorld /\ IdlePeer /\ IdleCalls

EntropyNext == GenerateCall \/ GeneratePass

EntropySpec == EntropyInit /\ [][EntropyNext]_vars

(***************************************************************************)
(* LoopSpec: the solvers of EntropySpec with generate(max_iterations)      *)
(* called with caps below, at and above width x height; the caller keeps   *)
(* the cap it passed.                                                      *)
(***************************************************************************)
\* wfc.generate(max_iterations) is entered with an explicit cap.
GenerateCapped ==
    /\ Callable
    /\ \E m \in 0 .. MaxCap :
          /\ gen_left' = m
          /\ phase' = IF m = 0 THEN "idle" ELSE "gen"
          /\ gen_result' = IF m = 0 THEN "fail" ELSE "none"
          /\ ret' = <<[fn |-> "generate", max_iterations |-> m]>>
    /\ UNCHANGED <<solverVars, forced, rules, ncollapse, rng, worldVars, peer,
                   tile_grid, passable_set, plot_in>>

LoopNext == GenerateCapped \/ GeneratePass

LoopSpec == EntropyInit /\ [][LoopNext]_vars

(***************************************************************************)
(* ReadSpec: WorldSpec with the caller reading the result between two      *)
(* generations: geo_gen.wfc.to_tile_grid() and                             *)
(* plot_gen.verify_completability().                                       *)
(***************************************************************************)
\* The reads made since generate call number `calls` returned: how many, and
\* what the last read of each kind gave (<<>> when not read yet).
ReadsSoFar ==
    IF ret # <<>> /\ ret[1].calls = calls THEN ret[1]
    ELSE [calls |-> calls, reads |-> 0, tiles |-> <<>>, verdict |-> <<>>]

\* wfc.to_tile_grid(): builds a new list of lists from collapsed_to.
ToTileGridCall ==
    /\ wpc \in {"done", "failed"} /\ ReadsSoFar.reads < MaxReads
    /\ ret' = <<[ReadsSoFar EXCEPT !.reads = @ + 1,
                                   !.tiles = <<to_tile_grid(Self)>>]>>
    /\ UNCHANGED <<solverVars, driverVars, rng, worldVars, peer, tile_grid,
                   passable_set, plot_in>>

\* plot_gen.verify_completability() returned v.
PlotVerifyResult(v) ==
    /\ ret' = <<[ReadsSoFar EXCEPT !.reads = @ + 1, !.verdict = <<v.ok>>]>>
    /\ rng' = v.rng

\* plot_gen.verify_completability(): replays a topological order drawn from
\* module random.
PlotVerifyCall ==
    /\ wpc \in {"done", "failed"} /\ ReadsSoFar.reads < MaxReads
    /\ PlotVerifyResult(plot_verify_completability(graph, rng))
    /\ UNCHANGED <<solverVars, driverVars, worldVars, peer, tile_grid,
                   passable_set, plot_in>>

ReadNext ==
    \/ AmbientDraw
    \/ WorldGenerateCall
    \/ PlanAttempt
    \/ PlanExhausted
    \/ GeoPlace
    \/ GeoSolve
    \/ GeoExhausted
    \/ ToTileGridCall
    \/ PlotVerifyCall

ReadSpec == WorldInit /\ [][ReadNext]_vars

(***************************************************************************)
(* ConstructSpec: BitwiseWFC built with any integers as width, height and  *)
(* num_tiles and a mask width that may be smaller than num_tiles, then     *)
(* driven as under Spec.                                                   *)
(***************************************************************************)
\* BitwiseWFC(width, height, num_tiles, mask_bits): the dataclass stores the
\* arguments as given and __post_init__ calls reset(), where
\* (1 << num_tiles) raises ValueError for a negative num_tiles and range()
\* of a number below 1 is empty.
ConstructInit ==
    /\ width \in -MaxBad .. MaxW
    /\ height \in -MaxBad .. MaxH
    /\ num_tiles \in -MaxBad .. MaxTiles
    /\ mask_bits \in {SmallMaskBits, DefaultMaskBits}
    /\ constraints = EmptyConstraints
    /\ grid = IF num_tiles < 0 THEN <<>>
              ELSE ResetGrid(width, height, num_tiles)
    /\ prop_stack = <<>>
    /\ phase = IF num_tiles < 0 THEN "raised" ELSE "setup"
    /\ gen_left = 0 /\ gen_result = "none"
    /\ forced = {} /\ rules = 0 /\ ncollapse = 0
    /\ rng = 0
    /\ IdleWorld /\ IdlePeer /\ IdleCalls

ConstructSpec == ConstructInit /\ [][Next]_vars

(***************************************************************************)
(* ConcurrentSpec: a WorldGenerator whose first generate call runs alone   *)
(* and whose second call runs while a second generation, with its own      *)
(* instances and its own seed, runs in another thread of the process.  The *)
(* second generation has its own solver, planner and world; what the two   *)
(* have in common is module random, so the second one is modelled by what  *)
(* it does to `rng`.                                                       *)
(***************************************************************************)
\* The second generation starts, with a seed of its own.
PeerStart ==
    /\ calls = 2 /\ ~Returned /\ peer = <<>>
    /\ \E seed \in 0 .. MaxSeed :
          /\ seed # base_seed
          /\ peer' = <<[seed |-> seed, steps |-> 0]>>
    /\ UNCHANGED <<solverVars, driverVars, rng, worldVars, callVars>>

\* The second generation's geo_gen.reset(geo_seed): random.seed(seed).
PeerReset ==
    /\ calls = 2 /\ ~Returned /\ peer # <<>>
    /\ peer[1].steps < MaxPeerSteps
    /\ rng' = SeedState(peer[1].seed)
    /\ peer' = <<[peer[1] EXCEPT !.steps = @ + 1]>>
    /\ UNCHANGED <<solverVars, driverVars, worldVars, callVars>>

\* The second generation's solver collapses a cell: random_set_bit draws
\* random.randint(0, count - 1) over the 16 tiles of a fresh cell.
PeerDraw ==
    /\ calls = 2 /\ ~Returned /\ peer # <<>>
    /\ peer[1].steps < MaxPeerSteps
    /\ rng' = randint(rng, 0, 15).rng
    /\ peer' = <<[peer[1] EXCEPT !.steps = @ + 1]>>
    /\ UNCHANGED <<solverVars, driverVars, worldVars, callVars>>

ConcurrentNext ==
    \/ WorldGenerateCall
    \/ PlanAttempt
    \/ PlanExhausted
    \/ GeoPlace
    \/ GeoSolve
    \/ GeoExhausted
    \/ PeerStart
    \/ PeerReset
    \/ PeerDraw

ConcurrentSpec == WorldInit /\ [][ConcurrentNext]_vars

(***************************************************************************)
(* PlotSpec: BackwardPlotGenerator.generate over the template table with   *)
(* some functions left without templates, and PlotGraph.topological_sort   *)
(* over graphs built with add_node and add_edge.                           *)
(***************************************************************************)
\* The solver is not used by the calls below.
IdleSolver ==
    /\ width = 1 /\ height = 1 /\ num_tiles = 1
    /\ mask_bits = DefaultMaskBits
    /\ constraints = EmptyConstraints
    /\ grid = ResetGrid(1, 1, 1)
    /\ prop_stack = <<>>
    /\ phase = "calls" /\ gen_left = 0 /\ gen_result = "none"
    /\ forced = {} /\ rules = 0 /\ ncollapse = 0

\* PLOT_TEMPLATES with the functions outside `avail` left without templates.
TemplatesOf(avail) ==
    [f \in 0 .. 7 |-> IF f \in avail THEN PLOT_TEMPLATES[f] ELSE <<>>]

\* The tables the planner is run over: the finale function always has its
\* templates.
TemplateTables == {TemplatesOf(S \cup {RETURN}) : S \in SUBSET (0 .. 6)}

\* The PlotGraph of n nodes after add_edge(a, b) for every <<a, b>> of E,
\* made in ascending order: each list of edges and reverse_edges ends up
\* ascending and free of duplicates.
GraphOf(n, E) ==
    [nodes |-> [i \in 1 .. n |->
                  [PlotNode(DONOR_TEST, Template({}, {}, ""))
                      EXCEPT !.id = i - 1]],
     edges |-> [i \in 1 .. n |->
                  SetBitsSeq({b \in 0 .. n - 1 : <<i - 1, b>> \in E})],
     reverse_edges |-> [i \in 1 .. n |->
                  SetBitsSeq({a \in 0 .. n - 1 : <<a, i - 1>> \in E})]]

SmallGraphs ==
    UNION {{GraphOf(n, E) : E \in SUBSET ((0 .. n - 1) \X (0 .. n - 1))} :
             n \in 1 .. MaxNodes}

PlotInit ==
    /\ IdleSolver /\ IdleWorld /\ IdlePeer
    /\ tile_grid = <<>> /\ passable_set = {}
    /\ \E seed \in 0 .. MaxSeed : rng = SeedState(seed)
    /\ \/ \E tb \in TemplateTables :
            plot_in = <<[fn |-> "generate", templates |-> tb,
                         graph |-> PlotGraph]>>
       \/ \E g \in SmallGraphs :
            plot_in = <<[fn |-> "topological_sort",
                         templates |-> PLOT_TEMPLATES, graph |-> g]>>
    /\ ret = <<>>

\* generate() has returned p.
GenerateReturns(p) ==
    /\ ret' = <<[fn |-> "generate", ok |-> p.ok, graph |-> p.graph,
                 unsatisfied |-> p.unsatisfied,
                 iterations |-> p.iterations]>>
    /\ rng' = p.rng

\* topological_sort() of g has returned ts.
SortReturns(g, ts) ==
    /\ ret' = <<[fn |-> "topological_sort", graph |-> g,
                 result |-> ts.result]>>
    /\ rng' = ts.rng

\* BackwardPlotGenerator.generate()
PlotGenerateCall ==
    /\ plot_in[1].fn = "generate" /\ ret = <<>>
    /\ GenerateReturns(plot_generate(plot_in[1].templates, rng))
    /\ UNCHANGED <<solverVars, driverVars, worldVars, peer, tile_grid,
                   passable_set, plot_in>>

\* graph.topological_sort() on a graph built by hand
TopologicalSortCall ==
    /\ plot_in[1].fn = "topological_sort" /\ ret = <<>>
    /\ SortReturns(plot_in[1].graph, topological_sort(plot_in[1].graph, rng))
    /\ UNCHANGED <<solverVars, driverVars, worldVars, peer, tile_grid,
                   passable_set, plot_in>>

\* graph.topological_sort() on the graph generate() has just built
SortPlanCall ==
    /\ ret # <<>> /\ ret[1].fn = "generate"
    /\ SortReturns(ret[1].graph, topological_sort(ret[1].graph, rng))
    /\ UNCHANGED <<solverVars, driverVars, worldVars, peer, tile_grid,
                   passable_set, plot_in>>

PlotNext == PlotGenerateCall \/ TopologicalSortCall \/ SortPlanCall

PlotSpec == PlotInit /\ [][PlotNext]_vars

(***************************************************************************)
(* ChainSpec: BackwardPlotGenerator.generate run one pass of its           *)
(* backward-chaining loop at a time, for both finale choices.              *)
(***************************************************************************)
\* list(ProppFunction)
AllFunctions ==
    <<LACK, DEPARTURE, DONOR_TEST, ACQUISITION, GUIDANCE, STRUGGLE, VICTORY,
      RETURN>>

\* generate, the locals after the finale node was added.
ChainBegin(finale) ==
    [pc |-> "loop", graph |-> add_node(PlotGraph, finale),
     unsatisfied |-> finale.requires,
     pending_nodes |-> <<<<0, finale.requires>>>>,
     used_functions |-> {finale.function}, iterations |-> 0,
     last |-> <<>>, ok |-> FALSE]

\* generate, the statements after the loop: roots, has_lack, the return.
ChainReturn(st) ==
    [st EXCEPT !.pc = "returned",
               !.ok = HasLack(st.graph, get_roots(st.graph))
                      /\ Len(st.graph.nodes) >= 4]

\* generate, one pass of the loop after the selection `best` was made over
\* the shuffled functions `order`: the break, or the new node, its edges and
\* the updated locals.  `last` keeps what the pass selected and from what.
ChainSelected(st, order, best) ==
    IF best.func = -1
    THEN ChainReturn([st EXCEPT !.iterations = @ + 1, !.last = <<>>])
    ELSE [pc |-> "loop",
          graph |-> ConnectProviders(
                      ConnectNeeds(
                        add_node(st.graph, PlotNode(best.func, best.template)),
                        Len(st.graph.nodes), best.template.provides,
                        st.pending_nodes, 1),
                      Len(st.graph.nodes), best.template.requires,
                      st.pending_nodes, 1),
          unsatisfied |-> (st.unsatisfied \ best.template.provides)
                          \cup best.template.requires,
          pending_nodes |-> Append(st.pending_nodes,
                                   <<Len(st.graph.nodes),
                                     best.template.requires>>),
          used_functions |-> st.used_functions \cup {best.func},
          iterations |-> st.iterations + 1,
          last |-> <<[func |-> best.func, template |-> best.template,
                      unsatisfied |-> st.unsatisfied,
                      used_functions |-> st.used_functions,
                      order |-> order]>>,
          ok |-> FALSE]

\* generate, one pass with the functions shuffled (sh).
ChainShuffled(st, sh) ==
    /\ ret' = <<ChainSelected(st, sh.v,
                              SelectFunctions(PLOT_TEMPLATES, sh.v, 1,
                                              st.used_functions,
                                              st.unsatisfied, NoBest))>>
    /\ rng' = sh.rng

\* generate, with the finale template drawn (pick).
ChainPicked(finale_func, pick) ==
    /\ ret' = <<ChainBegin(PlotNode(finale_func, pick.v))>>
    /\ rng' = pick.rng

ChainInit ==
    /\ IdleSolver /\ IdleWorld /\ IdlePeer
    /\ tile_grid = <<>> /\ passable_set = {}
    /\ \E seed \in 0 .. MaxPlanSeed : \E b \in BOOLEAN :
         /\ rng = SeedState(seed)
         /\ plot_in = <<[fn |-> "generate", include_return |-> b,
                         seed |-> seed]>>
    /\ ret = <<>>

\* generate(include_return) up to the loop
ChainStart ==
    /\ ret = <<>>
    /\ ChainPicked(FinaleFunc(plot_in[1].include_return),
                   choice(rng, PLOT_TEMPLATES[
                                   FinaleFunc(plot_in[1].include_return)]))
    /\ UNCHANGED <<solverVars, driverVars, worldVars, peer, tile_grid,
                   passable_set, plot_in>>

\* generate: the loop test and, when it passes, one pass of the loop; the
\* pass that leaves the loop returns.
ChainStep ==
    /\ ret # <<>> /\ ret[1].pc = "loop"
    /\ IF ret[1].unsatisfied = {} \/ ret[1].iterations >= 20
       THEN ret' = <<ChainReturn(ret[1])>> /\ rng' = rng
       ELSE ChainShuffled(ret[1], shuffle(rng, AllFunctions))
    /\ UNCHANGED <<solverVars, driverVars, worldVars, peer, tile_grid,
                   passable_set, plot_in>>

ChainNext == ChainStart \/ ChainStep

ChainSpec == ChainInit /\ [][ChainNext]_vars

(***************************************************************************)
(* GridSpec: the module-level functions of core.py called on plain tile    *)
(* grids.                                                                  *)
(***************************************************************************)
\* <<width, height>> of the grids: [] is <<0, 0>>, [[]] is <<0, 1>>.
GridDims == {<<0, 0>>, <<0, 1>>, <<1, 1>>, <<1, 3>>, <<2, 2>>, <<3, 2>>}

\* The values given as passable.
PassableSets == {{}, {0}, 0 .. MaxTileId}

\* The coordinates given as start, goal and targets: the cells of the grid
\* and one position beyond each side edge.
Probes(tg) == Cells(tg.width, tg.height) \cup {<<-1, 0>>, <<tg.width, 0>>}

\* The target lists: up to MaxTargets probes, repeats allowed.
TargetLists(tg) ==
    UNION {[1 .. n -> Probes(tg)] : n \in 0 .. MaxTargets}

GridInit ==
    /\ IdleSolver /\ IdleWorld /\ IdlePeer
    /\ rng = 0 /\ plot_in = <<>> /\ ret = <<>>
    /\ \E d \in GridDims :
         \E tiles \in [Cells(d[1], d[2]) -> 0 .. MaxTileId] :
            tile_grid = [width |-> d[1], height |-> d[2], tiles |-> tiles]
    /\ passable_set \in PassableSets

\* check_reachability(grid, start, targets, passable)
CheckReachabilityCall ==
    /\ ret = <<>>
    /\ \E start \in Probes(tile_grid) : \E targets \in TargetLists(tile_grid) :
         ret' = <<[fn |-> "check_reachability", start |-> start,
                   targets |-> targets,
                   value |-> check_reachability_pair(tile_grid, start,
                                                     targets, passable_set)]>>
    /\ UNCHANGED <<solverVars, driverVars, rng, worldVars, peer, tile_grid,
                   passable_set, plot_in>>

\* find_path(grid, start, goal, passable)
FindPathCall ==
    /\ ret = <<>>
    /\ \E start \in Probes(tile_grid) : \E goal \in Probes(tile_grid) :
         ret' = <<[fn |-> "find_path", start |-> start, goal |-> goal,
                   value |-> find_path(tile_grid, start, goal,
                                       passable_set)]>>
    /\ UNCHANGED <<solverVars, driverVars, rng, worldVars, peer, tile_grid,
                   passable_set, plot_in>>

\* find_connected_components(grid, passable)
FindComponentsCall ==
    /\ ret = <<>>
    /\ ret' = <<[fn |-> "find_connected_components",
                 value |-> find_connected_components(tile_grid,
                                                     passable_set)]>>
    /\ UNCHANGED <<solverVars, driverVars, rng, worldVars, peer, tile_grid,
                   passable_set, plot_in>>

GridNext == CheckReachabilityCall \/ FindPathCall \/ FindComponentsCall

GridSpec == GridInit /\ [][GridNext]_vars

(***************************************************************************)
(* Claims on the solver (checked under Spec)                               *)
(***************************************************************************)
Tile(c) == grid[c].collapsed_to

Neighbour(c, d) == <<c[1] + DX(d), c[2] + DY(d)>>

\* Every pair of 4-adjacent collapsed cells respects the table of the
\* first cell for the direction of the second.
AdjacencyHolds ==
    \A c \in DOMAIN grid : \A d \in {"N", "E", "S", "W"} :
        LET nb == Neighbour(c, d)
        IN (nb \in DOMAIN grid /\ is_collapsed(grid[c]) /\ is_collapsed(grid[nb]))
           => Tile(nb) \in ConstraintGet(constraints, d, Tile(c))

\* The table never allows t and u next to each other, in any direction
\* and either way round.
NeverAdjacent(t, u) ==
    \A d \in {"N", "E", "S", "W"} :
        /\ u \notin ConstraintGet(constraints, d, t)
        /\ t \notin ConstraintGet(constraints, d, u)

\* C1 (as claimed): whenever generate returns success, every pair of
\* 4-adjacent cells (a, b), b in direction d of a, has tile(b) in the
\* allowed-neighbour mask of tile(a) for d.
C1_AdjacencyOnSuccess == gen_result = "ok" => AdjacencyHolds

\* C1, the case with no collapse call from outside: generate alone, on a
\* freshly reset grid, returns success with a forbidden pair.
C1_AdjacencyNoAnchors ==
    (gen_result = "ok" /\ ncollapse = 0) => AdjacencyHolds

\* C2 (as claimed): generate never returns success while two force-collapsed
\* 4-adjacent cells hold two different tile types that the table never
\* allows side by side.
C2_IncompatibleAnchorsFail ==
    gen_result = "ok" =>
        ~ \E a \in forced, d \in {"N", "E", "S", "W"} :
              /\ Neighbour(a, d) \in forced
              /\ Tile(a) # Tile(Neighbour(a, d))
              /\ NeverAdjacent(Tile(a), Tile(Neighbour(a, d)))

\* C12: in every state of a solver built with 1 <= num_tiles <= mask_bits,
\* whatever reset, collapse, propagate and generate calls were made, every
\* cell's possibility mask is non-zero and holds tile ids only, and a cell
\* marked collapsed has exactly the bit of its collapsed_to value set.
C12_CellInvariant ==
    \A c \in DOMAIN grid :
        /\ grid[c].possibilities # {}
        /\ grid[c].possibilities \subseteq 0 .. num_tiles - 1
        /\ is_collapsed(grid[c]) =>
               grid[c].possibilities = {grid[c].collapsed_to}

\* C12, its case: generate returned False and left a grid with collapsed
\* and uncollapsed cells side by side.
C12_FailedPartialGrid ==
    /\ gen_result = "fail"
    /\ \E c \in DOMAIN grid : is_collapsed(grid[c])
    /\ \E c \in DOMAIN grid : ~is_collapsed(grid[c])

\* C13: in every state of the solver, collapse(x, y, tile) with a tile that
\* is not in the cell's possibility mask (a negative id, an id of num_tiles
\* or more, a tile the cell has lost, another tile than the one a collapsed
\* cell holds) returns False and leaves the grid and the propagation stack
\* as they were.
C13_RefusedCollapseChangesNothing ==
    \A c \in DOMAIN grid : \A tile \in -1 .. num_tiles + 1 :
        tile \notin grid[c].possibilities =>
            /\ ~collapse(Self, c, tile).ok
            /\ ~collapse(Self, c, tile).raised
            /\ collapse(Self, c, tile).s = Self

\* C13, its case: of two collapse calls from outside one was carried out
\* and one refused; one cell is collapsed and the stack holds it once.
C13_OneRefusedOneDone ==
    /\ ncollapse = 2 /\ Cardinality(forced) = 1 /\ Len(prop_stack) = 1
    /\ num_tiles = 2
    /\ Cardinality({c \in DOMAIN grid : is_collapsed(grid[c])}) = 1

\* C14 (as claimed): a solver exists only if it was built with width >= 1,
\* height >= 1 and 1 <= num_tiles <= mask_bits; its grid is not empty and
\* no cell starts with an all-zero mask.
C14_InvalidDimensionsRejected ==
    phase # "raised" =>
        /\ width >= 1 /\ height >= 1
        /\ num_tiles >= 1 /\ num_tiles <= mask_bits
        /\ DOMAIN grid # {}
        /\ \A c \in DOMAIN grid : grid[c].possibilities # {}

(***************************************************************************)
(* Claims on the world assembler (checked under WorldSpec)                 *)
(***************************************************************************)
\* A generate call has returned True.
Done == wpc = "done"

\* A generate call has returned False.
Failed == wpc = "failed"

\* The anchor coordinates of world.node_locations, in insertion order.
AnchorPositions == DictValues(world.node_locations)

\* The passable cells joined to the cells of S by 4-adjacent passable steps.
RECURSIVE PassableClosure(_)

PassableGrow(S, more) ==
    IF more \subseteq S THEN S ELSE PassableClosure(S \cup more)

PassableClosure(S) ==
    PassableGrow(S, {c \in DOMAIN grid :
                       /\ Tile(c) \in PASSABLE_TILES
                       /\ \E d \in {"N", "E", "S", "W"} : Neighbour(c, d) \in S})

\* The cells a walker standing on c can get to.
WalkableFrom(c) ==
    IF c \in DOMAIN grid /\ Tile(c) \in PASSABLE_TILES
    THEN PassableClosure({c}) ELSE {}

\* C3: after a generate call that returned True, verify_completability()
\* returns True, whatever the random generator holds when it is asked: the
\* plot replays in topological order with every requirement provided
\* earlier, and every anchor lies in one passable region.
C3_CompletableAfterSuccess ==
    Done => /\ verify_completability(world, graph, Self, rng).ok
            /\ completable # "fail"

\* C3, its case: a successful call whose world the caller has verified.
C3_VerifiedSuccess == Done /\ completable = "ok"

\* C4: in the world of a successful generate call every anchor coordinate
\* lies in [0,width) x [0,height), check_reachability from the first anchor
\* to the others over the passable tiles reports all reachable, and a walk
\* over passable cells does join the first anchor to each of the others.
C4_AnchorsInBoundsAndReachable ==
    Done =>
      /\ \A i \in 1 .. Len(AnchorPositions) :
             AnchorPositions[i] \in Cells(width, height)
      /\ Len(AnchorPositions) >= 2 =>
           /\ check_reachability(to_tile_grid(Self), AnchorPositions[1],
                                 Tail(AnchorPositions), PASSABLE_TILES)
           /\ \A i \in 2 .. Len(AnchorPositions) :
                  AnchorPositions[i] \in WalkableFrom(AnchorPositions[1])

\* C4, its case: a successful world with anchors on different cells.
C4_SpreadAnchors ==
    /\ Done
    /\ \E i, j \in 1 .. Len(AnchorPositions) :
           AnchorPositions[i] # AnchorPositions[j]

C6_AnchorsKeepChosenTile ==
    Done =>
      \A i \in 1 .. Len(world.node_locations) :
          LET node_id == world.node_locations[i][1]
              loc     == DictGet(extract_locations(world), node_id)
          IN /\ Tile(world.node_locations[i][2]) = DictGet(chosen, node_id)
             /\ \E k \in 1 .. Len(LOCATION_TO_TILES(loc)) :
                    Tile(world.node_locations[i][2]) = LOCATION_TO_TILES(loc)[k]

\* C7: a call that returned True left a complete world (the accepted plot
\* graph, a grid with every cell collapsed, an anchor inside the grid for
\* every plot node); a call that returned False left geography None, so
\* is_valid() is False.
C7_NoPartialWorld ==
    /\ Done => /\ world.plot = <<graph>> /\ world.geography # <<>>
               /\ is_valid(world)
               /\ is_complete(Self)
               /\ \A n \in 1 .. Len(graph.nodes) :
                      /\ DictHas(world.node_locations, graph.nodes[n].id)
                      /\ DictGet(world.node_locations, graph.nodes[n].id)
                             \in DOMAIN grid
    /\ Failed => /\ world.geography = <<>>
                 /\ ~is_valid(world)

\* C7, its case: a call that returned False after a plan was accepted and
\* anchors were placed.
C7_FailedAfterPlacing ==
    Failed /\ world.plot # <<>> /\ world.node_locations # <<>>

\* C8: the second generate call of a generator ends as the first did, with
\* the same tile grid, plot graph and anchor map, whatever the random
\* generator held when each call began.
C8_SameOutcomeTwice == (calls = 2 /\ Returned) => Outcome = prev

\* C8, its case: two successful calls, random draws by other code between.
C8_TwoCallsDone == calls = 2 /\ Done /\ prev # <<>> /\ prev.outcome = "done"

\* C9 (as claimed): a generate call ends only by returning True or False,
\* after at most max_plot_attempts planner runs and max_geo_attempts
\* geography attempts; with either cap 0 it does not return True.
C9_EndsDoneOrFailedWithinCaps ==
    /\ wpc \in {"idle", "plan", "geo", "solve", "done", "failed"}
    /\ planner_runs <= max_plot_attempts
    /\ geo_runs <= max_geo_attempts
    /\ Done => (max_plot_attempts > 0 /\ max_geo_attempts > 0)

\* C10 (as claimed): no generate call ends with an exception.
C10_NoExceptionEscapes == wpc # "raised"

(***************************************************************************)
(* Claims on concurrent generations (checked under ConcurrentSpec)         *)
(***************************************************************************)
\* C11 (as claimed): a generation that ran while a second generation, with
\* its own instances and seed, was running in the process ends with the
\* tile grid, plot graph and anchor map it produces when run alone.
C11_SameAsAlone ==
    (calls = 2 /\ Returned /\ peer # <<>>) => Outcome = prev

(***************************************************************************)
(* Claims on the planner (checked under PlotSpec)                          *)
(***************************************************************************)
GenerateReturned == ret # <<>> /\ ret[1].fn = "generate"

SortReturned == ret # <<>> /\ ret[1].fn = "topological_sort"

\* Node id n of g is the target of no edge.
NoPredecessor(g, n) == \A m \in 1 .. Len(g.nodes) : ~InSeq(n, g.edges[m])

\* C15: generate returns True exactly when the graph it built has a LACK
\* node that no edge points to and at least 4 nodes; over the table that
\* holds only the finale's templates it builds one node and returns False.
C15_AcceptanceTest ==
    GenerateReturned =>
        /\ ret[1].ok <=>
              /\ \E i \in 1 .. Len(ret[1].graph.nodes) :
                    /\ ret[1].graph.nodes[i].function = LACK
                    /\ NoPredecessor(ret[1].graph, i - 1)
              /\ Len(ret[1].graph.nodes) >= 4
        /\ plot_in[1].templates = TemplatesOf({RETURN}) =>
              Len(ret[1].graph.nodes) = 1 /\ ~ret[1].ok

\* C15 witness: generate has run over the finale-only table and refused its
\* one-node graph.
C15_TerminalOnlyRejected ==
    /\ GenerateReturned
    /\ plot_in[1].templates = TemplatesOf({RETURN})
    /\ Len(ret[1].graph.nodes) = 1 /\ ~ret[1].ok

\* C16 (as claimed): every plan generate accepts left the loop with
\* unsatisfied = 0; a loop that ends with requirements still unsatisfied
\* makes generate return False.
C16_AcceptedPlansAreSatisfied ==
    (GenerateReturned /\ ret[1].ok) => ret[1].unsatisfied = {}

\* Ids of g's nodes.
NodeIds(g) == 0 .. Len(g.nodes) - 1

\* Some non-empty set of nodes in which every node has a predecessor inside
\* the set: in a finite graph this is the same as having a cycle.
HasCycle(g) ==
    \E S \in SUBSET NodeIds(g) :
        /\ S # {}
        /\ \A n \in S : \E m \in S : InSeq(n, g.edges[m + 1])

\* res lists every node id of g once, each edge's source before its target.
IsFullOrder(g, res) ==
    /\ Len(res) = Len(g.nodes)
    /\ \A n \in NodeIds(g) : \E i \in 1 .. Len(res) : res[i] = n
    /\ \A i, j \in 1 .. Len(res) :
          InSeq(res[j], g.edges[res[i] + 1]) => i < j

\* C17: topological_sort of a non-empty graph returns a list holding every
\* node id once with each edge's source before its target, or the empty
\* list; the empty list exactly when the graph has a cycle.
C17_TopologicalSort ==
    (SortReturned /\ ret[1].graph.nodes # <<>>) =>
        /\ ret[1].result = <<>> \/ IsFullOrder(ret[1].graph, ret[1].result)
        /\ ret[1].result = <<>> <=> HasCycle(ret[1].graph)

\* C17 witness: the sort of a three-node graph that has a ready node and a
\* cycle behind it has returned the empty list.
C17_CycleBehindReadyNode ==
    /\ SortReturned
    /\ Len(ret[1].graph.nodes) = 3
    /\ \E n \in NodeIds(ret[1].graph) : ret[1].graph.reverse_edges[n + 1] = <<>>
    /\ HasCycle(ret[1].graph)
    /\ ret[1].result = <<>>

(***************************************************************************)
(* Claims on the grid functions (checked under GridSpec)                   *)
(***************************************************************************)
\* The in-bounds passable cells of the grid argument.
OpenCells ==
    {c \in Cells(tile_grid.width, tile_grid.height) :
        tile_grid.tiles[c] \in passable_set}

\* Two cells that share a side.
Adjacent4(a, b) ==
    \/ a[1] = b[1] /\ (a[2] - b[2] = 1 \/ b[2] - a[2] = 1)
    \/ a[2] = b[2] /\ (a[1] - b[1] = 1 \/ b[1] - a[1] = 1)

\* The open cells joined to a cell of S by steps between adjacent open cells.
RECURSIVE RegionOf(_)

RegionGrow(S, more) == IF more \subseteq S THEN S ELSE RegionOf(S \cup more)

RegionOf(S) ==
    RegionGrow(S, {c \in OpenCells : \E s \in S : Adjacent4(c, s)})

\* The cells that have a path of open cells from c: none when c itself is
\* impassable or out of bounds.
ConnectedTo(c) == IF c \in OpenCells THEN RegionOf({c}) ELSE {}

CalledFn(fn) == ret # <<>> /\ ret[1].fn = fn

\* C18: check_reachability returns as second result exactly the targets
\* without a path of open cells from start, and as first result True
\* exactly when there is no such target.
C18_UnreachableTargets ==
    CalledFn("check_reachability") =>
        /\ ret[1].value.unreachable =
              {ret[1].targets[i] : i \in
                  {k \in 1 .. Len(ret[1].targets) :
                      ret[1].targets[k] \notin ConnectedTo(ret[1].start)}}
        /\ ret[1].value.ok <=> ret[1].value.unreachable = {}

\* C18 witness: from an open start, of two open targets one is reported
\* unreachable and the other is not.
C18_OneOfTwoCutOff ==
    /\ CalledFn("check_reachability")
    /\ ret[1].start \in OpenCells
    /\ Len(ret[1].targets) = 2
    /\ ret[1].targets[1] \in OpenCells /\ ret[1].targets[2] \in OpenCells
    /\ ret[1].targets[1] # ret[1].start
    /\ ret[1].value.unreachable = {ret[1].targets[2]}
    /\ ~ret[1].value.ok

\* consecutive cells of a path share a side
Stepwise(path) == \A i \in 1 .. Len(path) - 1 : Adjacent4(path[i], path[i + 1])

\* The number of steps of a shortest walk over open cells from the cells of
\* `front` (already d steps from the start) to goal, goal being connected.
RECURSIVE StepsTo(_, _, _)
StepsTo(front, goal, d) ==
    IF goal \in front THEN d
    ELSE StepsTo(front \cup {c \in OpenCells :
                                \E s \in front : Adjacent4(c, s)},
                 goal, d + 1)

\* C19 (as claimed): find_path returns a path exactly when goal is joined to
\* start through open cells; the path runs from start to goal by steps
\* between adjacent cells, every cell of it in bounds and passable, and no
\* such path is shorter; otherwise it returns None.
C19_ShortestOpenPath ==
    CalledFn("find_path") =>
        /\ ret[1].value # <<>> <=> ret[1].goal \in ConnectedTo(ret[1].start)
        /\ ret[1].value # <<>> =>
              /\ ret[1].value[1][1] = ret[1].start
              /\ ret[1].value[1][Len(ret[1].value[1])] = ret[1].goal
              /\ Stepwise(ret[1].value[1])
              /\ \A i \in 1 .. Len(ret[1].value[1]) :
                    ret[1].value[1][i] \in OpenCells
              /\ Len(ret[1].value[1]) - 1 =
                    StepsTo({ret[1].start}, ret[1].goal, 0)

\* C19 with an in-bounds passable start and a goal other than start: what
\* the code does keep.
C19_FromOpenStart ==
    (/\ CalledFn("find_path")
     /\ ret[1].start \in OpenCells
     /\ ret[1].goal # ret[1].start) => C19_ShortestOpenPath

\* The components find_connected_components returned.
Components == ret[1].value

\* C20: find_connected_components returns a partition of the open cells:
\* every open cell lies in exactly one component, no other cell lies in
\* any, two cells of one component are joined through open cells, and no
\* two components hold adjacent cells.
C20_ComponentsPartition ==
    CalledFn("find_connected_components") =>
        /\ \A c \in OpenCells :
              Cardinality({i \in 1 .. Len(Components) :
                             c \in Components[i]}) = 1
        /\ \A i \in 1 .. Len(Components) :
              /\ Components[i] \subseteq OpenCells
              /\ \A a \in Components[i] : Components[i] \subseteq RegionOf({a})
        /\ \A i, j \in 1 .. Len(Components) :
              i # j => \A a \in Components[i] : \A b \in Components[j] :
                          ~Adjacent4(a, b)

\* C20 witness: a 3x2 grid with a wall cell has come back as two components,
\* one of them of more than one cell.
C20_TwoIslands ==
    /\ CalledFn("find_connected_components")
    /\ tile_grid.width = 3 /\ tile_grid.height = 2
    /\ Len(Components) = 2
    /\ \E i \in 1 .. 2 : Cardinality(Components[i]) > 1

(***************************************************************************)
(* Claims on reading a result (checked under ReadSpec)                     *)
(***************************************************************************)
\* C21: between two generations, a to_tile_grid() call returns what the
\* previous one returned, a verify_completability() call gives the verdict
\* the previous one gave, and neither changes the grid or the graph.
C21_ReadsAreStable ==
    [][ret' # ret =>
         /\ grid' = grid /\ graph' = graph
         /\ (ret # <<>> /\ ret[1].calls = ret'[1].calls) =>
               /\ ret[1].tiles # <<>> => ret'[1].tiles = ret[1].tiles
               /\ ret[1].verdict # <<>> => ret'[1].verdict = ret[1].verdict]_vars

\* C21 witness: after a successful generation the grid has been read twice
\* and the plot verified twice or more, or the other way round.
C21_ReadThreeTimes ==
    /\ wpc = "done" /\ ret # <<>> /\ ret[1].calls = calls
    /\ ret[1].reads = MaxReads
    /\ ret[1].tiles # <<>> /\ ret[1].verdict = <<TRUE>>

(***************************************************************************)
(* Claims on the one-tile solver (checked under UniformSpec)               *)
(***************************************************************************)
\* A generate() call made with the default max_iterations is running: the
\* explicit caps are 0..MaxIter and a call uses up one per pass.
DefaultCallRunning == phase = "gen" /\ gen_left > MaxIter

Built == ret[1].graph

\* The stepwise run ends with the graph and the verdict of the whole call.
ChainAgreesWithGenerate ==
    (ret # <<>> /\ ret[1].pc = "returned") =>
        /\ Built = plot_generate_finale(PLOT_TEMPLATES,
                        plot_in[1].include_return,
                        SeedState(plot_in[1].seed)).graph
        /\ ret[1].ok = plot_generate_finale(PLOT_TEMPLATES,
                           plot_in[1].include_return,
                           SeedState(plot_in[1].seed)).ok

\* C23 (as claimed): every graph generate builds, for either finale, is
\* acyclic, and topological_sort does not return the empty list for it.
C23_GeneratedGraphsAcyclic ==
    ret # <<>> =>
        /\ ~HasCycle(Built)
        /\ topological_sort(Built, rng).result # <<>>

\* C24: in every graph generate builds, two distinct nodes P and C have
\* the edge P -> C exactly when P.provides and C.requires share a bit,
\* whichever was created first; edges and reverse_edges mirror each other
\* and no node has an edge to itself.
C24_EdgeWiring ==
    ret # <<>> =>
        \A p, c \in NodeIds(Built) :
            /\ p # c =>
                  (InSeq(c, Built.edges[p + 1]) <=>
                     Built.nodes[p + 1].provides
                        \cap Built.nodes[c + 1].requires # {})
            /\ InSeq(c, Built.edges[p + 1]) <=>
                  InSeq(p, Built.reverse_edges[c + 1])
            /\ ~InSeq(p, Built.edges[p + 1])

\* C24 witness: generate has returned a graph in which a node created
\* earlier has an edge to a node created later.
C24_EdgeFromOlderNode ==
    /\ ret # <<>> /\ ret[1].pc = "returned"
    /\ \E p, c \in NodeIds(Built) : p < c /\ InSeq(c, Built.edges[p + 1])

\* The functions a pass may still instantiate, given used_functions.
Eligible(used) ==
    {f \in 0 .. 7 : f \notin used \/ f \in {ACQUISITION, DONOR_TEST}}

\* The number of bits template tp provides of the mask `unsatisfied`.
Gain(tp, unsatisfied) == Cardinality(tp.provides \cap unsatisfied)

\* The pass that led to the present state instantiated a template.
Selected == ret # <<>> /\ ret[1].last # <<>>

\* C25: the template a pass instantiates belongs to a function still
\* eligible and provides at least as many of the unsatisfied bits as any
\* template of any eligible function.
C25_GreedySelection ==
    Selected =>
        /\ ret[1].last[1].func \in Eligible(ret[1].last[1].used_functions)
        /\ InSeq(ret[1].last[1].template,
                 PLOT_TEMPLATES[ret[1].last[1].func])
        /\ \A f \in Eligible(ret[1].last[1].used_functions) :
              \A k \in 1 .. Len(PLOT_TEMPLATES[f]) :
                 Gain(PLOT_TEMPLATES[f][k], ret[1].last[1].unsatisfied)
                    <= Gain(ret[1].last[1].template,
                            ret[1].last[1].unsatisfied)

\* C25 witness: a pass chose with two or more bits unsatisfied, some
\* eligible template providing one of them and some providing none.
C25_ChoiceAmongUnequal ==
    /\ Selected
    /\ Cardinality(ret[1].last[1].unsatisfied) >= 2
    /\ Gain(ret[1].last[1].template, ret[1].last[1].unsatisfied) = 1
    /\ \E f \in Eligible(ret[1].last[1].used_functions) :
          \E k \in 1 .. Len(PLOT_TEMPLATES[f]) :
             Gain(PLOT_TEMPLATES[f][k], ret[1].last[1].unsatisfied) = 0

\* The orders random.shuffle can leave the functions in.
FunctionOrders ==
    {[i \in 1 .. 8 |-> pi[i - 1]] : pi \in Permutations(0 .. 7)}

\* The loop is about to make a selection.
Selecting ==
    /\ ret # <<>> /\ ret[1].pc = "loop"
    /\ ret[1].unsatisfied # {} /\ ret[1].iterations < 20

\* Template k of function f is eligible and provides as many unsatisfied
\* bits as any eligible template, and at least one.
TiedForBest(f, k) ==
    /\ f \in Eligible(ret[1].used_functions)
    /\ Gain(PLOT_TEMPLATES[f][k], ret[1].unsatisfied) > 0
    /\ \A g \in Eligible(ret[1].used_functions) :
          \A j \in 1 .. Len(PLOT_TEMPLATES[g]) :
             Gain(PLOT_TEMPLATES[g][j], ret[1].unsatisfied)
                <= Gain(PLOT_TEMPLATES[f][k], ret[1].unsatisfied)

\* C26 (as claimed): whenever a selection is made, each template tied for
\* the best intersection is the one instantiated under some shuffle of the
\* functions, later templates of the same function included.
C26_EveryTiedTemplateCanWin ==
    Selecting =>
        \A f \in 0 .. 7 : \A k \in 1 .. Len(PLOT_TEMPLATES[f]) :
            TiedForBest(f, k) =>
                \E order \in FunctionOrders :
                    /\ SelectFunctions(PLOT_TEMPLATES, order, 1,
                                       ret[1].used_functions,
                                       ret[1].unsatisfied, NoBest).func = f
                    /\ SelectFunctions(PLOT_TEMPLATES, order, 1,
                                       ret[1].used_functions,
                                       ret[1].unsatisfied, NoBest).template
                          = PLOT_TEMPLATES[f][k]

\* The nodes of the graph under construction labelled with function f.
NodesOf(f) == {n \in NodeIds(Built) : Built.nodes[n + 1].function = f}

\* C27: in every graph generate builds, each function other than
\* ACQUISITION and DONOR_TEST labels at most one node, the finale's
\* function included.
C27_FunctionsUsedOnce ==
    ret # <<>> =>
        \A f \in (0 .. 7) \ {ACQUISITION, DONOR_TEST} :
            Cardinality(NodesOf(f)) <= 1

\* C27 witness: generate has returned a graph with two ACQUISITION nodes
\* and one node of the finale's function.
C27_AcquisitionTwice ==
    /\ ret # <<>> /\ ret[1].pc = "returned"
    /\ Cardinality(NodesOf(ACQUISITION)) >= 2
    /\ Cardinality(NodesOf(FinaleFunc(plot_in[1].include_return))) = 1

(***************************************************************************)
(* Claims on the solver's loop (checked under EntropySpec)                 *)
(***************************************************************************)
\* The cells not collapsed yet.
OpenSolverCells == {c \in DOMAIN grid : ~is_collapsed(grid[c])}

\* popcount of the mask of cell c
Entropy(c) == popcount(grid[c].possibilities, mask_bits)

\* C28: in every pass of generate, each cell find_min_entropy_cell can hand
\* to collapse is uncollapsed and no uncollapsed cell has fewer possible
\* tiles; so a cell with one possible tile goes before any with more.
C28_MinEntropyCellChosen ==
    phase = "gen" =>
        \A c \in MinEntropyChoices(find_min_entropy_cell(Self)) :
            c # NoCell =>
                /\ c \in OpenSolverCells
                /\ \A d \in OpenSolverCells : Entropy(c) <= Entropy(d)

\* C28 witness: a pass of generate starts on a grid whose uncollapsed cells
\* have two and three possible tiles.
C28_MixedEntropies ==
    /\ phase = "gen"
    /\ \E c, d \in OpenSolverCells : Entropy(c) = 2 /\ Entropy(d) = 3

(***************************************************************************)
(* Claims on the solver's termination (checked under LoopSpec)             *)
(***************************************************************************)
\* The cap of the running generate call is at least width x height.
CapCoversGrid == ret # <<>> /\ ret[1].max_iterations >= width * height

\* Every pass the loop can make now returns by itself, cap or no cap.
EveryPassReturns ==
    \A c \in MinEntropyChoices(find_min_entropy_cell(Self)) :
        \A target \in 0 .. (IF c = NoCell THEN 0
                            ELSE Max(0, Entropy(c) - 1)) :
            generate_pass(Self, c, target).done

\* C29: during generate no mask gains a bit and no collapsed cell changes;
\* a pass collapses a cell that was uncollapsed, unless every cell was
\* collapsed already and generate returns True; the passes left go down;
\* and a call whose cap is at least width x height returns within
\* width x height passes and is never cut off by the cap.
C29_SolverTerminates ==
    [][phase = "gen" =>
         /\ \A c \in DOMAIN grid :
               /\ grid'[c].possibilities \subseteq grid[c].possibilities
               /\ is_collapsed(grid[c]) => grid'[c] = grid[c]
         /\ \/ \E c \in DOMAIN grid :
                  ~is_collapsed(grid[c]) /\ is_collapsed(grid'[c])
            \/ /\ OpenSolverCells = {}
               /\ phase' = "idle" /\ gen_result' = "ok"
         /\ phase' = "gen" => gen_left' < gen_left
         /\ (CapCoversGrid /\ phase' = "idle") =>
               /\ ret[1].max_iterations - gen_left + 1 <= width * height
               /\ gen_left > 1 \/ EveryPassReturns]_vars

\* C29 witness: a call with the cap equal to width x height = 6 has
\* returned True from its last allowed pass.
C29_FinishedOnLastPass ==
    /\ width * height = 6 /\ ret # <<>> /\ ret[1].max_iterations = 6
    /\ phase = "idle" /\ gen_result = "ok"
    /\ \A c \in DOMAIN grid : is_collapsed(grid[c])

(***************************************************************************)
(* Claims on the anchors of a world (checked under WorldSpec)              *)
(***************************************************************************)
\* C30 (as claimed): in the WorldState of a successful generate call no two
\* plot nodes have the same anchor coordinate.
C30_DistinctAnchors ==
    Done =>
        \A i, j \in 1 .. Len(AnchorPositions) :
            i # j => AnchorPositions[i] # AnchorPositions[j]

====
